---- MODULE Spec2Model ----
(***************************************************************************)
(* Remote IR Device Manager: the command store (storage.py), the           *)
(* coordinator's operations over it (coordinator.py) and the remote        *)
(* entity's multi-command dispatch (remote.py).                            *)
(*                                                                         *)
(* Text (names, codes) is a sequence of one-character strings, so that     *)
(* str.lower(), str.startswith() and slicing are computed, not assumed.    *)
(* uuid.uuid4() is a counter that never repeats; dt_util.utcnow() is one   *)
(* instant.                                                                *)
(***************************************************************************)
EXTENDS Integers, Sequences, FiniteSets, TLC

VARIABLES
    devices,            \* IRDeviceStorage._devices: device id -> VirtualDevice
    persisted,          \* the Store's file: <<>> when absent, else <<snapshot>>
    last_sent_command,  \* IRDeviceCoordinator._last_sent_command
    nextUuid,           \* the next value uuid.uuid4() returns
    saveFailures,       \* how many persistence writes have failed so far
    last,               \* the last completed operation: its call, result, effects
    pc,                 \* position of the running dispatch / send
    call,               \* the running dispatch's arguments and loop indices
    inflight,           \* remote.send_command service calls not yet completed
    trace,              \* blaster invocations, sleeps and marker writes so far
    light,              \* the IRLight entity's assumed state, None without a light
    cover,              \* the IRCover entity's assumed state, None without a cover
    tasks,              \* the coordinator calls running concurrently, each one's position
    coordinators        \* the devices of every coordinator set up so far, the entry's last

storeVars == <<devices, persisted, nextUuid, saveFailures, last>>
sendVars == <<pc, call, inflight, trace, light, cover, tasks, coordinators>>
vars == <<devices, persisted, last_sent_command, nextUuid, saveFailures, last,
          pc, call, inflight, trace, light, cover, tasks, coordinators>>

(***************************************************************************)
(* Bounds of the model.                                                    *)
(***************************************************************************)
MaxUuid == 2
MaxSaveFailures == 1
MaxCommands == 3
MaxRepeats == 2
MaxStored == 2
MaxLevels == 5
MaxPresets == 5
MaxTasks == 3

(***************************************************************************)
(* Text.                                                                   *)
(***************************************************************************)
None == "None"
EmptyDict == [x \in {} |-> x]

UpperCase == {"A","B","C","D","E","F","G","H","I","J","K","L","M",
              "N","O","P","Q","R","S","T","U","V","W","X","Y","Z"}
LowerCase == {"a","b","c","d","e","f","g","h","i","j","k","l","m",
              "n","o","p","q","r","s","t","u","v","w","x","y","z"}
Digits == {"0","1","2","3","4","5","6","7","8","9"}

ToLower ==
    [c \in UpperCase |->
        CASE c = "A" -> "a" [] c = "B" -> "b" [] c = "C" -> "c" [] c = "D" -> "d"
          [] c = "E" -> "e" [] c = "F" -> "f" [] c = "G" -> "g" [] c = "H" -> "h"
          [] c = "I" -> "i" [] c = "J" -> "j" [] c = "K" -> "k" [] c = "L" -> "l"
          [] c = "M" -> "m" [] c = "N" -> "n" [] c = "O" -> "o" [] c = "P" -> "p"
          [] c = "Q" -> "q" [] c = "R" -> "r" [] c = "S" -> "s" [] c = "T" -> "t"
          [] c = "U" -> "u" [] c = "V" -> "v" [] c = "W" -> "w" [] c = "X" -> "x"
          [] c = "Y" -> "y" [] c = "Z" -> "z"]

\* str.lower()
Lower(s) == [i \in DOMAIN s |-> IF s[i] \in UpperCase THEN ToLower[s[i]] ELSE s[i]]

B64Prefix == <<"b", "6", "4", ":">>

\* str.startswith(prefix)
StartsWith(s, prefix) ==
    /\ Len(s) >= Len(prefix)
    /\ SubSeq(s, 1, Len(prefix)) = prefix

\* code[4:] when code.startswith("b64:")
StripPrefix(code) ==
    IF StartsWith(code, B64Prefix) THEN SubSeq(code, Len(B64Prefix) + 1, Len(code)) ELSE code

B64Alphabet == UpperCase \cup LowerCase \cup Digits \cup {"+", "/"}

\* the number of leading characters of s that are in the base64 alphabet
RECURSIVE DataLen(_)
DataLen(s) ==
    IF s = <<>> \/ Head(s) \notin B64Alphabet THEN 0 ELSE 1 + DataLen(Tail(s))

\* a variant that accepts every text
IsValidBase64_lax(code) == TRUE

\* base64.b64decode(code, validate=True) does not raise: data characters of the
\* alphabet followed by the padding that completes the last group of four (some
\* CPython versions also accept surplus "=" after complete groups; no call of
\* this model gives such a text)
IsValidBase64(code) ==
    LET n == DataLen(code)
        pad == SubSeq(code, n + 1, Len(code))
    IN  \/ n % 4 = 0 /\ pad = <<>>
        \/ n % 4 = 2 /\ pad = <<"=", "=">>
        \/ n % 4 = 3 /\ pad = <<"=">>

(***************************************************************************)
(* Constants of the program (const.py).                                    *)
(***************************************************************************)
STORAGE_VERSION == 2
DEVICE_TYPE_GENERIC == "generic"
DEVICE_TYPE_LIGHT == "light"
DEVICE_TYPE_COVER == "cover"
DEVICE_TYPE_FAN == "fan"

Now == "utcnow"

(***************************************************************************)
(* The data model (storage.py).                                            *)
(***************************************************************************)
Get(d, k, default) == IF k \in DOMAIN d THEN d[k] ELSE default

Without(d, k) == [x \in DOMAIN d \ {k} |-> d[x]]

Put(d, k, v) == [x \in DOMAIN d \cup {k} |-> IF x = k THEN v ELSE d[x]]

\* a variant that keeps the transport prefix in the stored code
IRCommand_prefixed(id, name, code, command_type, icon) ==
    [id |-> id, name |-> name, code |-> B64Prefix \o code, command_type |-> command_type,
     learned_at |-> Now, icon |-> icon]

IRCommand(id, name, code, command_type, icon) ==
    [id |-> id, name |-> name, code |-> code, command_type |-> command_type,
     learned_at |-> Now, icon |-> icon]

IRCommandFields == {"id", "name", "code", "command_type", "learned_at", "icon"}

IRCommand_to_dict(c) ==
    [id |-> c.id, name |-> c.name, code |-> c.code, command_type |-> c.command_type,
     learned_at |-> c.learned_at, icon |-> c.icon]

IRCommand_from_dict(data) ==
    [id |-> data["id"], name |-> data["name"], code |-> data["code"],
     command_type |-> Get(data, "command_type", "ir"),
     learned_at |-> Get(data, "learned_at", Now),
     icon |-> Get(data, "icon", None)]

EntityConfig(entity_type, enabled, command_mappings, state, options) ==
    [entity_type |-> entity_type, enabled |-> enabled,
     command_mappings |-> command_mappings, state |-> state, options |-> options]

EntityConfig_to_dict(c) ==
    [entity_type |-> c.entity_type, enabled |-> c.enabled,
     command_mappings |-> c.command_mappings, state |-> c.state, options |-> c.options]

\* a variant that keeps the keys of state the light entity writes
EntityConfig_from_dict_known_state(data) ==
    LET state == Get(data, "state", EmptyDict)
    IN  [entity_type |-> data["entity_type"],
         enabled |-> Get(data, "enabled", TRUE),
         command_mappings |-> Get(data, "command_mappings", EmptyDict),
         state |-> [k \in DOMAIN state \cap {"is_on", "brightness", "color_temp_index", "effect"}
                       |-> state[k]],
         options |-> Get(data, "options", EmptyDict)]

EntityConfig_from_dict(data) ==
    [entity_type |-> data["entity_type"],
     enabled |-> Get(data, "enabled", TRUE),
     command_mappings |-> Get(data, "command_mappings", EmptyDict),
     state |-> Get(data, "state", EmptyDict),
     options |-> Get(data, "options", EmptyDict)]

VirtualDevice(id, name, ir_blaster_entity_id) ==
    [id |-> id, name |-> name, ir_blaster_entity_id |-> ir_blaster_entity_id,
     commands |-> EmptyDict, created_at |-> Now,
     device_type |-> DEVICE_TYPE_GENERIC, entity_configs |-> EmptyDict]

VirtualDevice_to_dict(d) ==
    [id |-> d.id, name |-> d.name, ir_blaster_entity_id |-> d.ir_blaster_entity_id,
     commands |-> [k \in DOMAIN d.commands |-> IRCommand_to_dict(d.commands[k])],
     created_at |-> d.created_at, device_type |-> d.device_type,
     entity_configs |->
         [k \in DOMAIN d.entity_configs |-> EntityConfig_to_dict(d.entity_configs[k])]]

\* from_dict raises KeyError: a required key is missing in the record, in one of
\* its commands or in one of its entity configs
FromDictRaises(data) ==
    \/ ~({"id", "name", "ir_blaster_entity_id"} \subseteq DOMAIN data)
    \/ \E k \in DOMAIN Get(data, "commands", EmptyDict) :
           ~({"id", "name", "code"} \subseteq DOMAIN data["commands"][k])
    \/ \E k \in DOMAIN Get(data, "entity_configs", EmptyDict) :
           "entity_type" \notin DOMAIN data["entity_configs"][k]

VirtualDevice_from_dict(data) ==
    LET cmds == Get(data, "commands", EmptyDict)
        cfgs == Get(data, "entity_configs", EmptyDict)
    IN  [id |-> data["id"], name |-> data["name"],
         ir_blaster_entity_id |-> data["ir_blaster_entity_id"],
         commands |-> [k \in DOMAIN cmds |-> IRCommand_from_dict(cmds[k])],
         created_at |-> Get(data, "created_at", Now),
         device_type |-> Get(data, "device_type", DEVICE_TYPE_GENERIC),
         entity_configs |-> [k \in DOMAIN cfgs |-> EntityConfig_from_dict(cfgs[k])]]

(***************************************************************************)
(* IRDeviceStorage (storage.py).                                           *)
(***************************************************************************)
\* the device whose name equals `name` ignoring case, as a set: empty for None
\* a variant that compares the names as they are
get_device_by_name_exact(devs, name) ==
    {id \in DOMAIN devs : devs[id].name = name}

get_device_by_name(devs, name) ==
    {id \in DOMAIN devs : Lower(devs[id].name) = Lower(name)}

\* a variant that writes the devices without their entity configs
async_save_partial(devs) ==
    [version |-> STORAGE_VERSION,
     virtual_devices |->
         [id \in DOMAIN devs |->
             [VirtualDevice_to_dict(devs[id]) EXCEPT !.entity_configs = EmptyDict]]]

\* the data async_save hands to the Store
async_save(devs) ==
    [version |-> STORAGE_VERSION,
     virtual_devices |-> [id \in DOMAIN devs |-> VirtualDevice_to_dict(devs[id])]]

\* a variant that assigns the defaults instead of setdefault
_migrate_v1_to_v2_assign(data) ==
    LET vd == Get(data, "virtual_devices", EmptyDict)
        migrated(d) ==
            Put(Put(d, "device_type", DEVICE_TYPE_GENERIC), "entity_configs", EmptyDict)
    IN  Put(IF "virtual_devices" \in DOMAIN data
                THEN Put(data, "virtual_devices", [id \in DOMAIN vd |-> migrated(vd[id])])
                ELSE data,
            "version", 2)

_migrate_v1_to_v2(data) ==
    LET vd == Get(data, "virtual_devices", EmptyDict)
        migrated(d) ==
            Put(Put(d, "device_type", Get(d, "device_type", DEVICE_TYPE_GENERIC)),
                "entity_configs", Get(d, "entity_configs", EmptyDict))
    IN  Put(IF "virtual_devices" \in DOMAIN data
                THEN Put(data, "virtual_devices", [id \in DOMAIN vd |-> migrated(vd[id])])
                ELSE data,
            "version", 2)

\* the data async_load works on: the stored data, migrated when its version is below 2
LoadedData(store) ==
    IF Get(store[1], "version", 1) < 2 THEN _migrate_v1_to_v2(store[1]) ELSE store[1]

\* _devices after async_load
async_load(store) ==
    IF store = <<>> THEN EmptyDict
    ELSE LET vd == Get(LoadedData(store), "virtual_devices", EmptyDict)
             good == {id \in DOMAIN vd : ~FromDictRaises(vd[id])}
         IN  [id \in good |-> VirtualDevice_from_dict(vd[id])]

\* a variant that does not save the migrated data
async_load_store_unsaved(store) == store

\* the Store's file after async_load: the migrated data is saved
async_load_store(store) ==
    IF store = <<>> THEN store ELSE <<LoadedData(store)>>

(***************************************************************************)
(* The inputs the operations are called with.                              *)
(***************************************************************************)
Blaster == "remote.blaster"

DeviceNames == {<<"t", "v">>, <<"T", "V">>, <<"a", "c">>}

CommandNames == {<<"o", "n">>, <<"U", "p">>}

CodeABC == <<"Q", "U", "J", "D">>
CodeA == <<"Q", "Q", "=", "=">>
CodeBadPadding == <<"Q", "Q", "=">>

\* the calls of async_add_command: name, code, command_type, icon
AddCommandCalls ==
    { [name |-> <<"o", "n">>, code |-> CodeABC, command_type |-> "ir", icon |-> ""],
      [name |-> <<"O", "n">>, code |-> B64Prefix \o CodeA, command_type |-> "rf",
       icon |-> "mdi:tv"],
      [name |-> <<"u", "p">>, code |-> CodeBadPadding, command_type |-> "ir", icon |-> None],
      [name |-> <<"u", "p">>, code |-> B64Prefix \o (B64Prefix \o CodeABC),
       command_type |-> "ir", icon |-> None] }

\* the keyword arguments of async_update_command
UpdateCalls ==
    { [icon |-> "mdi:power"],
      [name |-> <<"u", "p">>, colour |-> "red"] }

\* what the adapter registry's retrieve_learned_code returns: <<code>>, or <<>> for None
RetrievedCodes == {<<CodeA>>, <<>>}

SavedLightState ==
    [is_on |-> TRUE, brightness |-> 200, color_temp_index |-> 2, effect |-> None]

ConfiguredLight ==
    EntityConfig("light", TRUE, [turn_on |-> <<"o", "n">>], SavedLightState,
                 [brightness_mode |-> "none"])

EntityConfigCalls == {[entity_type |-> "light", config |-> ConfiguredLight]}

EntityStateCalls == {[entity_type |-> "light", state |-> SavedLightState]}

DeviceTypeCalls == {DEVICE_TYPE_GENERIC, DEVICE_TYPE_LIGHT, DEVICE_TYPE_COVER}

\* the device ids the operations are called with: those of the store and one
\* that no device has (uuid4 starts at 1)
DeviceIds == DOMAIN devices \cup {0}

(***************************************************************************)
(* IRDeviceCoordinator (coordinator.py): the end of an operation.          *)
(***************************************************************************)
NoEffects == [saves |-> 0, reloads |-> 0, captures |-> 0, extractions |-> 0]

\* an operation that ends before it changes anything
Returns(c, result, effects) ==
    /\ last' = [op |-> c.op, arg |-> c.arg, result |-> result, saves |-> effects.saves,
                reloads |-> effects.reloads, captures |-> effects.captures,
                extractions |-> effects.extractions]
    /\ UNCHANGED <<devices, persisted, last_sent_command, nextUuid, saveFailures>>

\* _async_reload_entry: the entry is set up again, with a new coordinator that loads
\* the stored data, unless the reload fails (which is logged, not raised)
ReloadOutcomes(reload) == IF reload THEN {"reloaded", "reload_failed"} ELSE {"no_reload"}

\* a variant that undoes the mutation when the write fails
SaveAndReload_rollback(c, mutated, uuids, result, reload, effects) ==
    \E outcome \in ReloadOutcomes(reload) \cup {"write_failed"} :
        /\ outcome = "write_failed" => saveFailures < MaxSaveFailures
        /\ saveFailures' = IF outcome = "write_failed" THEN saveFailures + 1 ELSE saveFailures
        /\ persisted' = IF outcome = "write_failed" THEN persisted ELSE <<async_save(mutated)>>
        /\ devices' = IF outcome = "write_failed" THEN devices
                       ELSE IF outcome = "reloaded" THEN async_load(persisted') ELSE mutated
        /\ last_sent_command' =
               IF outcome = "reloaded" THEN EmptyDict ELSE last_sent_command
        /\ nextUuid' = nextUuid + uuids
        /\ last' = [op |-> c.op, arg |-> c.arg,
                    result |-> IF outcome = "write_failed" THEN "PersistenceFailed" ELSE result,
                    saves |-> effects.saves + 1,
                    reloads |-> IF outcome \in {"reloaded", "reload_failed"}
                                    THEN effects.reloads + 1 ELSE effects.reloads,
                    captures |-> effects.captures, extractions |-> effects.extractions]

\* an operation that has changed the devices in memory to `mutated`:
\* await self._storage.async_save(), then (unless the write raised) the reload
SaveAndReload(c, mutated, uuids, result, reload, effects) ==
    \E outcome \in ReloadOutcomes(reload) \cup {"write_failed"} :
        /\ outcome = "write_failed" => saveFailures < MaxSaveFailures
        /\ saveFailures' = IF outcome = "write_failed" THEN saveFailures + 1 ELSE saveFailures
        /\ persisted' = IF outcome = "write_failed" THEN persisted ELSE <<async_save(mutated)>>
        /\ devices' = IF outcome = "reloaded" THEN async_load(persisted') ELSE mutated
        /\ last_sent_command' =
               IF outcome = "reloaded" THEN EmptyDict ELSE last_sent_command
        /\ nextUuid' = nextUuid + uuids
        /\ last' = [op |-> c.op, arg |-> c.arg,
                    result |-> IF outcome = "write_failed" THEN "PersistenceFailed" ELSE result,
                    saves |-> effects.saves + 1,
                    reloads |-> IF outcome \in {"reloaded", "reload_failed"}
                                    THEN effects.reloads + 1 ELSE effects.reloads,
                    captures |-> effects.captures, extractions |-> effects.extractions]

(***************************************************************************)
(* IRDeviceStorage's mutators: the devices in memory after the mutation.   *)
(***************************************************************************)
storage_add_device(devs, device) == Put(devs, device.id, device)

storage_remove_device(devs, device_id) == Without(devs, device_id)

\* device.commands[command.name.lower()] = command
storage_add_command(devs, device_id, command) ==
    [devs EXCEPT ![device_id].commands = Put(@, Lower(command.name), command)]

\* a variant that deletes the key as given, without lowering it
storage_remove_command_as_given(devs, device_id, command_name) ==
    [devs EXCEPT ![device_id].commands = Without(@, command_name)]

\* del device.commands[command_name.lower()]
storage_remove_command(devs, device_id, command_name) ==
    [devs EXCEPT ![device_id].commands = Without(@, Lower(command_name))]

\* command_name.lower() in device.commands
command_name_exists(devs, device_id, command_name) ==
    /\ device_id \in DOMAIN devs
    /\ Lower(command_name) \in DOMAIN devs[device_id].commands

(***************************************************************************)
(* IRDeviceCoordinator's operations, each one whole call.                  *)
(***************************************************************************)
async_add_device(name, ir_blaster_entity_id) ==
    LET c == [op |-> "add_device", arg |-> name]
    IN  IF get_device_by_name(devices, name) # {}
        THEN Returns(c, "Duplicate", NoEffects)
        ELSE /\ nextUuid <= MaxUuid
             /\ SaveAndReload(c,
                    storage_add_device(devices,
                        VirtualDevice(nextUuid, name, ir_blaster_entity_id)),
                    1, "ok", TRUE, NoEffects)

async_remove_device(device_id) ==
    LET c == [op |-> "remove_device", arg |-> device_id]
    IN  IF device_id \in DOMAIN devices
        THEN SaveAndReload(c, storage_remove_device(devices, device_id),
                           0, "True", TRUE, NoEffects)
        ELSE Returns(c, "False", NoEffects)

\* icon if icon else None
IconOrNone(icon) == IF icon # None /\ icon # "" THEN icon ELSE None

\* async_add_command, called by a service or by async_learn_command (which has
\* had the effects `effects` before)
add_command(c, device_id, command_name, code, command_type, icon, effects) ==
    IF device_id \notin DOMAIN devices
    THEN Returns(c, "NotFound", effects)
    ELSE IF command_name_exists(devices, device_id, command_name)
    THEN Returns(c, "Duplicate", effects)
    ELSE IF ~IsValidBase64(StripPrefix(code))
    THEN Returns(c, "InvalidEncoding", effects)
    ELSE /\ nextUuid <= MaxUuid
         /\ SaveAndReload(c,
                storage_add_command(devices, device_id,
                    IRCommand(nextUuid, command_name, StripPrefix(code), command_type,
                              IconOrNone(icon))),
                1, "ok", TRUE, effects)

async_add_command(device_id, r) ==
    add_command([op |-> "add_command", arg |-> r], device_id, r.name, r.code, r.command_type, r.icon, NoEffects)

\* a variant that deletes in memory and returns without saving
async_delete_command_unsaved(device_id, command_name) ==
    LET c == [op |-> "delete_command", arg |-> command_name]
    IN  IF command_name_exists(devices, device_id, command_name)
        THEN /\ devices' = storage_remove_command(devices, device_id, command_name)
             /\ last' = [op |-> c.op, arg |-> c.arg, result |-> "True", saves |-> 0,
                         reloads |-> 0, captures |-> 0, extractions |-> 0]
             /\ UNCHANGED <<persisted, last_sent_command, nextUuid, saveFailures>>
        ELSE Returns(c, "False", NoEffects)

async_delete_command(device_id, command_name) ==
    LET c == [op |-> "delete_command", arg |-> command_name]
    IN  IF command_name_exists(devices, device_id, command_name)
        THEN SaveAndReload(c, storage_remove_command(devices, device_id, command_name),
                           0, "True", TRUE, NoEffects)
        ELSE Returns(c, "False", NoEffects)

\* for key, value in updates.items(): if hasattr(command, key): setattr(...)
ApplyUpdates(command, updates) ==
    [f \in DOMAIN command |-> IF f \in DOMAIN updates THEN updates[f] ELSE command[f]]

async_update_command(device_id, command_name, updates) ==
    LET c == [op |-> "update_command", arg |-> updates]
    IN  IF command_name_exists(devices, device_id, command_name)
        THEN SaveAndReload(c,
                 [devices EXCEPT ![device_id].commands[Lower(command_name)] =
                      ApplyUpdates(@, updates)],
                 0, "True", TRUE, NoEffects)
        ELSE Returns(c, "False", NoEffects)

\* the EntityConfig async_update_device_type creates for a type
DefaultEntityConfig(device_type) ==
    CASE device_type = DEVICE_TYPE_LIGHT ->
             EntityConfig("light", TRUE, EmptyDict,
                          [is_on |-> FALSE, brightness |-> 255, color_temp_index |-> 2],
                          [brightness_mode |-> "none"])
      [] device_type = DEVICE_TYPE_COVER ->
             EntityConfig("cover", TRUE, EmptyDict, [position |-> 50],
                          [device_class |-> "shade"])
      [] device_type = DEVICE_TYPE_FAN ->
             EntityConfig("fan", TRUE, EmptyDict, [is_on |-> FALSE, speed |-> 50],
                          EmptyDict)

\* a variant that creates the default config whether or not the device has one
WithDeviceType_overwrite(device, device_type) ==
    [device EXCEPT
        !.device_type = device_type,
        !.entity_configs =
            IF device_type # DEVICE_TYPE_GENERIC
            THEN Put(@, device_type, DefaultEntityConfig(device_type))
            ELSE @]

WithDeviceType(device, device_type) ==
    [device EXCEPT
        !.device_type = device_type,
        !.entity_configs =
            IF device_type # DEVICE_TYPE_GENERIC /\ device_type \notin DOMAIN @
            THEN Put(@, device_type, DefaultEntityConfig(device_type))
            ELSE @]

async_update_device_type(device_id, device_type) ==
    LET c == [op |-> "update_device_type", arg |-> device_type]
    IN  IF device_id \in DOMAIN devices
        THEN SaveAndReload(c,
                 [devices EXCEPT ![device_id] = WithDeviceType(@, device_type)],
                 0, "True", TRUE, NoEffects)
        ELSE Returns(c, "False", NoEffects)

async_update_entity_config(device_id, entity_type, config) ==
    LET c == [op |-> "update_entity_config", arg |-> entity_type]
    IN  IF device_id \in DOMAIN devices
        THEN SaveAndReload(c,
                 [devices EXCEPT ![device_id].entity_configs = Put(@, entity_type, config)],
                 0, "True", TRUE, NoEffects)
        ELSE Returns(c, "False", NoEffects)

async_save_entity_state(device_id, entity_type, state) ==
    LET c == [op |-> "save_entity_state", arg |-> entity_type]
    IN  IF device_id \in DOMAIN devices /\ entity_type \in DOMAIN devices[device_id].entity_configs
        THEN SaveAndReload(c,
                 [devices EXCEPT ![device_id].entity_configs[entity_type].state = state],
                 0, "None", FALSE, NoEffects)
        ELSE Returns(c, "None", NoEffects)

\* the calls of async_learn_command: name, command_type
LearnCalls ==
    { [name |-> <<"O", "N">>, command_type |-> "rf"] }

Captured == [saves |-> 0, reloads |-> 0, captures |-> 1, extractions |-> 0]
Extracted == [saves |-> 0, reloads |-> 0, captures |-> 1, extractions |-> 1]

\* a variant that starts the capture before it checks the name
async_learn_command_capture_first(device_id, r, captured, retrieved) ==
    LET c == [op |-> "learn_command", arg |-> [name |-> r.name, retrieved |-> retrieved]]
    IN  IF device_id \notin DOMAIN devices
        THEN Returns(c, "NotFound", NoEffects)
        ELSE IF command_name_exists(devices, device_id, r.name)
        THEN Returns(c, "Duplicate", Captured)
        ELSE IF ~captured
        THEN Returns(c, "CaptureFailed", Captured)
        ELSE IF retrieved = <<>> \/ retrieved[1] = <<>>
        THEN Returns(c, "ManualEntryRequired", Extracted)
        ELSE add_command(c, device_id, r.name, retrieved[1], r.command_type, None, Extracted)

\* a variant that tries the capture a second time when it fails
async_learn_command_retry(device_id, r, captured, retrieved) ==
    LET c == [op |-> "learn_command", arg |-> [name |-> r.name, retrieved |-> retrieved]]
    IN  IF device_id \notin DOMAIN devices
        THEN Returns(c, "NotFound", NoEffects)
        ELSE IF command_name_exists(devices, device_id, r.name)
        THEN Returns(c, "Duplicate", NoEffects)
        ELSE IF ~captured
        THEN Returns(c, "CaptureFailed", [saves |-> 0, reloads |-> 0, captures |-> 2, extractions |-> 0])
        ELSE IF retrieved = <<>> \/ retrieved[1] = <<>>
        THEN Returns(c, "ManualEntryRequired", Extracted)
        ELSE add_command(c, device_id, r.name, retrieved[1], r.command_type, None, Extracted)

\* a variant that raises when nothing is retrieved
async_learn_command_raises(device_id, r, captured, retrieved) ==
    LET c == [op |-> "learn_command", arg |-> [name |-> r.name, retrieved |-> retrieved]]
    IN  IF device_id \notin DOMAIN devices
        THEN Returns(c, "NotFound", NoEffects)
        ELSE IF command_name_exists(devices, device_id, r.name)
        THEN Returns(c, "Duplicate", NoEffects)
        ELSE IF ~captured
        THEN Returns(c, "CaptureFailed", Captured)
        ELSE IF retrieved = <<>> \/ retrieved[1] = <<>>
        THEN Returns(c, "RetrievalFailed", Extracted)
        ELSE add_command(c, device_id, r.name, retrieved[1], r.command_type, None, Extracted)

\* a variant that stores the code without the command type it was called with
async_learn_command_default_type(device_id, r, captured, retrieved) ==
    LET c == [op |-> "learn_command", arg |-> [name |-> r.name, retrieved |-> retrieved]]
    IN  IF device_id \notin DOMAIN devices
        THEN Returns(c, "NotFound", NoEffects)
        ELSE IF command_name_exists(devices, device_id, r.name)
        THEN Returns(c, "Duplicate", NoEffects)
        ELSE IF ~captured
        THEN Returns(c, "CaptureFailed", Captured)
        ELSE IF retrieved = <<>> \/ retrieved[1] = <<>>
        THEN Returns(c, "ManualEntryRequired", Extracted)
        ELSE add_command(c, device_id, r.name, retrieved[1], "ir", None, Extracted)

\* one learn attempt: `captured` is whether the blaster's learn_command call
\* returned, `retrieved` what the adapter registry then found
async_learn_command(device_id, r, captured, retrieved) ==
    LET c == [op |-> "learn_command", arg |-> [name |-> r.name, retrieved |-> retrieved]]
    IN  IF device_id \notin DOMAIN devices
        THEN Returns(c, "NotFound", NoEffects)
        ELSE IF command_name_exists(devices, device_id, r.name)
        THEN Returns(c, "Duplicate", NoEffects)
        ELSE IF ~captured
        THEN Returns(c, "CaptureFailed", Captured)
        ELSE IF retrieved = <<>> \/ retrieved[1] = <<>>
        THEN Returns(c, "ManualEntryRequired", Extracted)
        ELSE add_command(c, device_id, r.name, retrieved[1], r.command_type, None, Extracted)

(***************************************************************************)
(* The store's specification: any sequence of the coordinator's            *)
(* operations, starting from the empty store.                              *)
(***************************************************************************)
Idle == [names |-> <<>>, delay_secs |-> 0, num_repeats |-> 0, i |-> 0, sent |-> 0,
         device_id |-> 0, by |-> "nobody"]

Init ==
    /\ devices = EmptyDict
    /\ persisted = <<>>
    /\ last_sent_command = EmptyDict
    /\ nextUuid = 1
    /\ saveFailures = 0
    /\ last = [op |-> "init", arg |-> <<>>, result |-> "init", saves |-> 0, reloads |-> 0, captures |-> 0, extractions |-> 0]
    /\ pc = "idle"
    /\ call = Idle
    /\ inflight = 0
    /\ trace = <<>>
    /\ light = None
    /\ cover = None
    /\ tasks = <<>>
    /\ coordinators = <<>>

AddDevice == \E name \in DeviceNames : async_add_device(name, Blaster)
RemoveDevice == \E d \in DeviceIds : async_remove_device(d)
AddCommand == \E d \in DeviceIds, r \in AddCommandCalls : async_add_command(d, r)
DeleteCommand == \E d \in DeviceIds, n \in CommandNames : async_delete_command(d, n)
UpdateCommand ==
    \E d \in DeviceIds, n \in CommandNames, u \in UpdateCalls : async_update_command(d, n, u)
UpdateDeviceType ==
    \E d \in DeviceIds, t \in DeviceTypeCalls : async_update_device_type(d, t)
UpdateEntityConfig ==
    \E d \in DeviceIds, r \in EntityConfigCalls :
        async_update_entity_config(d, r.entity_type, r.config)
SaveEntityState ==
    \E d \in DeviceIds, r \in EntityStateCalls :
        async_save_entity_state(d, r.entity_type, r.state)
LearnCommand ==
    \E d \in DeviceIds, r \in LearnCalls, captured \in BOOLEAN, retrieved \in RetrievedCodes :
        async_learn_command(d, r, captured, retrieved)

Next ==
    /\ \/ AddDevice
       \/ RemoveDevice
       \/ AddCommand
       \/ DeleteCommand
       \/ UpdateCommand
       \/ LearnCommand
    /\ UNCHANGED sendVars

Spec == Init /\ [][Next]_vars

(***************************************************************************)
(* The specification of every mutating operation, the entity               *)
(* configuration ones included, over one device name and one command name. *)
(***************************************************************************)
ConfigAddCommandCalls == {r \in AddCommandCalls : r.icon = ""  \/  r.code = CodeBadPadding}

ConfigAddDevice == async_add_device(<<"t", "v">>, Blaster)
ConfigAddCommand == \E d \in DeviceIds, r \in ConfigAddCommandCalls : async_add_command(d, r)
ConfigDeleteCommand == \E d \in DeviceIds : async_delete_command(d, <<"O", "N">>)
ConfigUpdateCommand ==
    \E d \in DeviceIds : async_update_command(d, <<"o", "n">>, [icon |-> "mdi:power"])

ConfigNext ==
    /\ \/ ConfigAddDevice
       \/ RemoveDevice
       \/ ConfigAddCommand
       \/ ConfigDeleteCommand
       \/ ConfigUpdateCommand
       \/ UpdateDeviceType
       \/ UpdateEntityConfig
       \/ SaveEntityState
    /\ UNCHANGED sendVars

SpecConfig == Init /\ [][ConfigNext]_vars

(***************************************************************************)
(* The specification of learning: learn attempts and manual entries on one *)
(* device, with every kind of text the adapter can find in the blaster's   *)
(* codes file.                                                             *)
(***************************************************************************)
LearnAttemptCalls ==
    { [name |-> <<"O", "N">>, command_type |-> "rf"],
      [name |-> <<"u", "p">>, command_type |-> "ir"] }

\* what retrieve_learned_code returns: a code, a code with the transport prefix,
\* a text that is not base64, the empty text, or None (<<>>)
LearnRetrievedCodes ==
    {<<CodeA>>, <<B64Prefix \o CodeABC>>, <<CodeBadPadding>>, << <<>> >>, <<>>}

LearnAttempt ==
    \E d \in DeviceIds, r \in LearnAttemptCalls, captured \in BOOLEAN,
       retrieved \in LearnRetrievedCodes :
        async_learn_command(d, r, captured, retrieved)

LearnNext ==
    /\ \/ ConfigAddDevice
       \/ RemoveDevice
       \/ ConfigAddCommand
       \/ ConfigDeleteCommand
       \/ LearnAttempt
    /\ UNCHANGED sendVars

SpecLearn == Init /\ [][LearnNext]_vars

(***************************************************************************)
(* The specification of a command's life: it is created by manual entry or *)
(* by learning, updated, and deleted with or without its device.           *)
(***************************************************************************)
\* the keyword arguments of async_update_command: any attribute of the command
LifecycleUpdateCalls ==
    { [icon |-> "mdi:power"],
      [code |-> CodeA],
      [name |-> <<"u", "p">>] }

LifecycleUpdateCommand ==
    \E d \in DeviceIds, u \in LifecycleUpdateCalls : async_update_command(d, <<"o", "n">>, u)

LifecycleNext ==
    /\ \/ ConfigAddDevice
       \/ RemoveDevice
       \/ ConfigAddCommand
       \/ ConfigDeleteCommand
       \/ LearnAttempt
       \/ LifecycleUpdateCommand
    /\ UNCHANGED sendVars

SpecLifecycle == Init /\ [][LifecycleNext]_vars

(***************************************************************************)
(* The specification of deleting: the entry is set up over a store of two  *)
(* devices, a light with two commands and an entity config and a generic   *)
(* device with one command, and commands and devices are deleted.          *)
(***************************************************************************)
DeleteLight == 1
DeleteOther == 2

DeleteStore ==
    (DeleteLight :>
        [VirtualDevice(DeleteLight, <<"t", "v">>, Blaster) EXCEPT
            !.device_type = DEVICE_TYPE_LIGHT,
            !.commands =
                (<<"o", "n">> :> IRCommand(3, <<"O", "n">>, CodeABC, "ir", "mdi:power"))
                @@ (<<"u", "p">> :> IRCommand(4, <<"u", "p">>, CodeA, "ir", None)),
            !.entity_configs =
                ("light" :> EntityConfig("light", TRUE, [turn_on |-> <<"o", "n">>],
                                [is_on |-> FALSE, brightness |-> 255, color_temp_index |-> 2],
                                [brightness_mode |-> "none"]))])
    @@ (DeleteOther :>
        [VirtualDevice(DeleteOther, <<"a", "c">>, Blaster) EXCEPT
            !.commands =
                (<<"o", "n">> :> IRCommand(5, <<"o", "n">>, CodeA, "ir", None))])

\* the names a deletion is called with: "ON", "up" and a name no device has
DeleteNames == {<<"O", "N">>, <<"u", "p">>, <<"x">>}

InitDelete ==
    /\ persisted = <<async_save(DeleteStore)>>
    /\ devices = async_load(persisted)
    /\ last_sent_command = EmptyDict
    /\ nextUuid = 6
    /\ saveFailures = 0
    /\ last = [op |-> "init", arg |-> <<>>, result |-> "init", saves |-> 0, reloads |-> 0, captures |-> 0, extractions |-> 0]
    /\ pc = "idle"
    /\ call = Idle
    /\ inflight = 0
    /\ trace = <<>>
    /\ light = None
    /\ cover = None
    /\ tasks = <<>>
    /\ coordinators = <<>>

DeleteStoredCommand ==
    \E d \in DeviceIds, n \in DeleteNames : async_delete_command(d, n)

DeleteNext ==
    /\ \/ DeleteStoredCommand
       \/ RemoveDevice
    /\ UNCHANGED sendVars

SpecDelete == InitDelete /\ [][DeleteNext]_vars

(***************************************************************************)
(* The specification of loading: the entry is set up over stored data of   *)
(* any version, whose device records may be incomplete or no JSON object.  *)
(***************************************************************************)
\* a device record that is no JSON object (null): .get, .setdefault raise
\* AttributeError on it
JsonNull == [json_null |-> TRUE]

\* the ids of the stored devices, given out by earlier runs
StoredIds == {0 - i : i \in 1..MaxStored}

RECURSIVE StoredName(_)
StoredName(n) == IF n = 0 THEN <<>> ELSE <<"d">> \o StoredName(n - 1)

StoredCommand ==
    [id |-> 0 - 10, name |-> <<"o", "n">>, code |-> CodeA, command_type |-> "ir",
     learned_at |-> Now, icon |-> None]

\* a record as version 1 wrote it: no device_type, no entity_configs
StoredV1(id) ==
    [id |-> id, name |-> StoredName(0 - id), ir_blaster_entity_id |-> Blaster,
     commands |-> (<<"o", "n">> :> StoredCommand), created_at |-> Now]

\* the records a stored device can have
StoredRecords(id) ==
    { StoredV1(id),
      Put(StoredV1(id), "device_type", DEVICE_TYPE_LIGHT),
      Put(Put(StoredV1(id), "device_type", DEVICE_TYPE_LIGHT), "entity_configs",
          ("light" :> EntityConfig_to_dict(ConfiguredLight))),
      Without(StoredV1(id), "name"),
      Put(StoredV1(id), "commands", (<<"o", "n">> :> Without(StoredCommand, "code"))),
      JsonNull }

\* the stored data: any subset of the ids, each with one of its records, under
\* version 1, version 2 or no version
StoredData ==
    UNION { UNION { { [virtual_devices |-> vd], [version |-> v, virtual_devices |-> vd] }
                    : v \in {1, 2} }
            : vd \in UNION { {f \in [ids -> UNION {StoredRecords(id) : id \in ids}] :
                                 \A id \in ids : f[id] \in StoredRecords(id)}
                             : ids \in SUBSET StoredIds } }

InitLoad ==
    /\ devices = EmptyDict
    /\ persisted \in {<<>>} \cup {<<data>> : data \in StoredData}
    /\ last_sent_command = EmptyDict
    /\ nextUuid = 1
    /\ saveFailures = 0
    /\ last = [op |-> "init", arg |-> <<>>, result |-> "init", saves |-> 0, reloads |-> 0,
               captures |-> 0, extractions |-> 0]
    /\ pc = "idle"
    /\ call = Idle
    /\ inflight = 0
    /\ trace = <<>>
    /\ light = None
    /\ cover = None
    /\ tasks = <<>>
    /\ coordinators = <<>>

\* async_load raises AttributeError: a record is no JSON object
LoadRaises(store) ==
    /\ store # <<>>
    /\ \E id \in DOMAIN Get(store[1], "virtual_devices", EmptyDict) :
           store[1]["virtual_devices"][id] = JsonNull

\* stored_version < 2
NeedsMigration(store) == store # <<>> /\ Get(store[1], "version", 1) < 2

\* the end of a load: `migrations` runs of the migration, `saves` writes
Loads(result, migrations, saves) ==
    /\ last' = [op |-> "load", arg |-> [migrations |-> migrations], result |-> result,
                saves |-> saves, reloads |-> 0, captures |-> 0, extractions |-> 0]
    /\ last_sent_command' = EmptyDict
    /\ UNCHANGED nextUuid

\* async_setup_entry: a new coordinator, and its storage's async_load. A load
\* that raises ends the setup: the coordinator and what it had loaded are dropped.
Load ==
    IF LoadRaises(persisted)
    THEN /\ Loads("AttributeError", IF NeedsMigration(persisted) THEN 1 ELSE 0, 0)
         /\ devices' = EmptyDict
         /\ UNCHANGED <<persisted, saveFailures>>
    ELSE IF NeedsMigration(persisted)
    THEN \/ /\ persisted' = async_load_store(persisted)
            /\ devices' = async_load(persisted)
            /\ Loads("ok", 1, 1)
            /\ UNCHANGED saveFailures
         \/ /\ saveFailures < MaxSaveFailures
            /\ saveFailures' = saveFailures + 1
            /\ devices' = EmptyDict
            /\ Loads("PersistenceFailed", 1, 1)
            /\ UNCHANGED persisted
    ELSE /\ devices' = async_load(persisted)
         /\ Loads("ok", 0, 0)
         /\ UNCHANGED <<persisted, saveFailures>>

\* the entry is set up: its coordinator serves the operations
Loaded == last.op # "init" /\ ~(last.op = "load" /\ last.result # "ok")

LoadedRemoveDevice == Loaded /\ RemoveDevice

LoadNext ==
    /\ \/ Load
       \/ LoadedRemoveDevice
    /\ UNCHANGED sendVars

SpecLoad == InitLoad /\ [][LoadNext]_vars

(***************************************************************************)
(* The specification of saving and loading: the storage holds one or two   *)
(* devices of any type, with or without commands and a light config whose  *)
(* state and options may have keys the code does not know; entity states   *)
(* are saved and the entry is set up again over what was saved.            *)
(***************************************************************************)
\* the state and the options of an entity config: empty, as the code writes
\* them, and with keys the code does not know (one of them a dict itself)
RoundTripStates ==
    { EmptyDict,
      SavedLightState,
      SavedLightState @@ [transition |-> 2, scene |-> [name |-> <<"e", "v">>]] }

RoundTripOptions ==
    { EmptyDict,
      [brightness_mode |-> "none"],
      [brightness_mode |-> "relative", brightness_step_size |-> 10, min_kelvin |-> 2700] }

RoundTripEntityConfigs ==
    {EmptyDict}
    \cup { "light" :> EntityConfig("light", enabled, [turn_on |-> <<"o", "n">>], state, options)
            : enabled \in BOOLEAN, state \in RoundTripStates, options \in RoundTripOptions }

RoundTripCommands ==
    LET on == <<"o", "n">> :> IRCommand(3, <<"O", "n">>, CodeABC, "rf", "mdi:power")
        up == <<"u", "p">> :> IRCommand(4, <<"u", "p">>, CodeA, "ir", None)
    IN  {EmptyDict, on, up, on @@ up}

RoundTripDevices(id, name) ==
    { [VirtualDevice(id, name, Blaster) EXCEPT
          !.device_type = t, !.commands = c, !.entity_configs = e]
      : t \in {DEVICE_TYPE_GENERIC, DEVICE_TYPE_LIGHT}, c \in RoundTripCommands,
        e \in RoundTripEntityConfigs }

RoundTripStores ==
    { 1 :> d : d \in RoundTripDevices(1, <<"t", "v">>) }
    \cup { (1 :> d) @@ (2 :> DeleteStore[DeleteOther]) : d \in RoundTripDevices(1, <<"t", "v">>) }

InitRoundTrip ==
    /\ devices \in RoundTripStores
    /\ persisted = <<async_save(devices)>>
    /\ last_sent_command = EmptyDict
    /\ nextUuid = 6
    /\ saveFailures = 0
    /\ last = [op |-> "init", arg |-> <<>>, result |-> "init", saves |-> 0, reloads |-> 0,
               captures |-> 0, extractions |-> 0]
    /\ pc = "idle"
    /\ call = Idle
    /\ inflight = 0
    /\ trace = <<>>
    /\ light = None
    /\ cover = None
    /\ tasks = <<>>
    /\ coordinators = <<>>

RoundTripSaveEntityState ==
    \E d \in DeviceIds, state \in RoundTripStates : async_save_entity_state(d, "light", state)

RoundTripNext ==
    /\ \/ Load
       \/ RoundTripSaveEntityState
    /\ UNCHANGED sendVars

SpecRoundTrip == InitRoundTrip /\ [][RoundTripNext]_vars

(***************************************************************************)
(* The specification of concurrent calls: learn, add and remove-device     *)
(* calls run as tasks of one event loop, which switches between them where *)
(* a call awaits: the capture, the extraction, the write of the store and  *)
(* the reload of the entry.  A reload sets up a new coordinator over what  *)
(* is stored (__init__.py: async_setup_entry); a task that was started     *)
(* before goes on with the coordinator it was called on.  `devices` is the *)
(* entry's coordinator, the last of `coordinators`.  `last` and            *)
(* `last_sent_command` are not used: each task's record has its result.    *)
(***************************************************************************)
RaceDevice == 1
RaceOther == 2

RaceStore ==
    (RaceDevice :>
        [VirtualDevice(RaceDevice, <<"t", "v">>, Blaster) EXCEPT
            !.commands = (<<"u", "p">> :> IRCommand(3, <<"u", "p">>, CodeA, "ir", None))])
    @@ (RaceOther :> VirtualDevice(RaceOther, <<"a", "c">>, Blaster))

\* the calls: a learn and an add whose names are equal ignoring case, and the
\* removal of either device
RaceCalls ==
    << [op |-> "learn_command", device_id |-> RaceDevice, name |-> <<"O", "N">>,
        code |-> <<>>, command_type |-> "rf"],
       [op |-> "add_command", device_id |-> RaceDevice, name |-> <<"o", "n">>,
        code |-> CodeABC, command_type |-> "ir"],
       [op |-> "remove_device", device_id |-> RaceDevice, name |-> <<>>,
        code |-> <<>>, command_type |-> "ir"],
       [op |-> "remove_device", device_id |-> RaceOther, name |-> <<>>,
        code |-> <<>>, command_type |-> "ir"] >>

\* a task that has not started: `coordinator` is the coordinator it is called on,
\* `snapshot` the data its async_save handed to the Store, `seq` the order of
\* that hand-over, `created` whether it has put a command into a store, and
\* `removed` (history) whether its device was removed while it was suspended in
\* the capture or the extraction
NewTask(c) ==
    [op |-> c.op, device_id |-> c.device_id, name |-> c.name, code |-> c.code,
     command_type |-> c.command_type, pc |-> "new", coordinator |-> 0,
     snapshot |-> <<>>, seq |-> 0, result |-> "running", created |-> FALSE,
     removed |-> FALSE]

\* up to MaxTasks concurrent calls (their order in the sequence means nothing)
RaceTasks ==
    UNION { { [i \in 1..n |-> NewTask(RaceCalls[f[i]])]
              : f \in {g \in [1..n -> DOMAIN RaceCalls] : \A i \in 1..(n - 1) : g[i] <= g[i + 1]} }
            : n \in 2..MaxTasks }

InitRace ==
    /\ devices = RaceStore
    /\ coordinators = <<RaceStore>>
    /\ persisted = <<async_save(RaceStore)>>
    /\ tasks \in RaceTasks
    /\ last_sent_command = EmptyDict
    /\ nextUuid = 4
    /\ saveFailures = 0
    /\ last = [op |-> "init", arg |-> <<>>, result |-> "init", saves |-> 0, reloads |-> 0,
               captures |-> 0, extractions |-> 0]
    /\ pc = "idle"
    /\ call = Idle
    /\ inflight = 0
    /\ trace = <<>>
    /\ light = None
    /\ cover = None

\* hass.data[DOMAIN][entry.entry_id]["coordinator"]
Current == Len(coordinators)

\* the position of the next hand-over to the Store
NextSeq ==
    LET Highest[i \in 0..Len(tasks)] ==
            IF i = 0 THEN 0
            ELSE IF tasks[i].seq > Highest[i - 1] THEN tasks[i].seq ELSE Highest[i - 1]
    IN  Highest[Len(tasks)] + 1

\* the task returns or raises
Ends(t, result) ==
    tasks' = [tasks EXCEPT ![t].pc = "done", ![t].result = result]

\* the task has changed the devices of coordinator g to `mutated` and awaits
\* IRDeviceStorage.async_save, which has built the data to write
Mutates(t, g, mutated, created) ==
    /\ coordinators' = [coordinators EXCEPT ![g] = mutated]
    /\ devices' = coordinators'[Current]
    /\ tasks' = [u \in DOMAIN tasks |->
                    IF u = t
                    THEN [tasks[t] EXCEPT !.pc = "save", !.coordinator = g,
                                          !.snapshot = async_save(mutated), !.seq = NextSeq,
                                          !.created = created]
                    ELSE IF /\ tasks[u].pc \in {"capture", "extract"}
                            /\ tasks[u].device_id \in DOMAIN coordinators[g] \ DOMAIN mutated
                    THEN [tasks[u] EXCEPT !.removed = TRUE]
                    ELSE tasks[u]]

\* a variant of async_add_command that does not look for the name again
Task_async_add_command_unchecked(t, g, code) ==
    LET c == tasks[t]
        devs == coordinators[g]
    IN  IF c.device_id \notin DOMAIN devs
        THEN Ends(t, "NotFound") /\ UNCHANGED <<devices, coordinators, nextUuid>>
        ELSE IF ~IsValidBase64(StripPrefix(code))
        THEN Ends(t, "InvalidEncoding") /\ UNCHANGED <<devices, coordinators, nextUuid>>
        ELSE /\ Mutates(t, g,
                    storage_add_command(devs, c.device_id,
                        IRCommand(nextUuid, c.name, StripPrefix(code), c.command_type, None)),
                    TRUE)
             /\ nextUuid' = nextUuid + 1

\* async_add_command on coordinator g, up to its first await: the checks, the
\* new IRCommand and IRDeviceStorage.async_add_command's assignment
Task_async_add_command(t, g, code) ==
    LET c == tasks[t]
        devs == coordinators[g]
    IN  IF c.device_id \notin DOMAIN devs
        THEN Ends(t, "NotFound") /\ UNCHANGED <<devices, coordinators, nextUuid>>
        ELSE IF command_name_exists(devs, c.device_id, c.name)
        THEN Ends(t, "Duplicate") /\ UNCHANGED <<devices, coordinators, nextUuid>>
        ELSE IF ~IsValidBase64(StripPrefix(code))
        THEN Ends(t, "InvalidEncoding") /\ UNCHANGED <<devices, coordinators, nextUuid>>
        ELSE /\ Mutates(t, g,
                    storage_add_command(devs, c.device_id,
                        IRCommand(nextUuid, c.name, StripPrefix(code), c.command_type, None)),
                    TRUE)
             /\ nextUuid' = nextUuid + 1

\* a call is made on the entry's coordinator and runs to its first await
TaskStarts(t) ==
    LET c == tasks[t]
        devs == coordinators[Current]
    IN  /\ c.pc = "new"
        /\ CASE c.op = "learn_command" ->
                   /\ IF c.device_id \notin DOMAIN devs
                      THEN Ends(t, "NotFound")
                      ELSE IF command_name_exists(devs, c.device_id, c.name)
                      THEN Ends(t, "Duplicate")
                      ELSE tasks' = [tasks EXCEPT ![t].pc = "capture",
                                                  ![t].coordinator = Current]
                   /\ UNCHANGED <<devices, coordinators, nextUuid>>
             [] c.op = "add_command" -> Task_async_add_command(t, Current, c.code)
             [] c.op = "remove_device" ->
                   IF c.device_id \in DOMAIN devs
                   THEN /\ Mutates(t, Current, storage_remove_device(devs, c.device_id), FALSE)
                        /\ UNCHANGED nextUuid
                   ELSE Ends(t, "False") /\ UNCHANGED <<devices, coordinators, nextUuid>>
        /\ UNCHANGED <<persisted, saveFailures>>

\* remote.learn_command returns or raises
CaptureReturns(t) ==
    /\ tasks[t].pc = "capture"
    /\ \E captured \in BOOLEAN :
           IF captured THEN tasks' = [tasks EXCEPT ![t].pc = "extract"]
           ELSE Ends(t, "CaptureFailed")
    /\ UNCHANGED <<devices, coordinators, nextUuid, persisted, saveFailures>>

\* the adapter registry returns: with a code the learn goes on into
\* async_add_command of its own coordinator
ExtractionReturns(t) ==
    /\ tasks[t].pc = "extract"
    /\ \E retrieved \in RetrievedCodes :
           IF retrieved = <<>> \/ retrieved[1] = <<>>
           THEN Ends(t, "ManualEntryRequired") /\ UNCHANGED <<devices, coordinators, nextUuid>>
           ELSE Task_async_add_command(t, tasks[t].coordinator, retrieved[1])
    /\ UNCHANGED <<persisted, saveFailures>>

\* the Store writes what the task's async_save handed to it, or the write
\* raises; one Store (one coordinator) writes in the order of the hand-overs
StoreWrites(t) ==
    /\ tasks[t].pc = "save"
    /\ \A u \in DOMAIN tasks :
           ~(tasks[u].pc = "save" /\ tasks[u].coordinator = tasks[t].coordinator
               /\ tasks[u].seq < tasks[t].seq)
    /\ \/ /\ persisted' = <<tasks[t].snapshot>>
          /\ tasks' = [tasks EXCEPT ![t].pc = "reload"]
          /\ UNCHANGED saveFailures
       \/ /\ saveFailures < MaxSaveFailures
          /\ saveFailures' = saveFailures + 1
          /\ Ends(t, "PersistenceFailed")
          /\ UNCHANGED persisted
    /\ UNCHANGED <<devices, coordinators, nextUuid>>

\* _async_reload_entry: the entry is set up again with a new coordinator that
\* loads what is stored, or the reload fails, which is logged
EntryReloads(t) ==
    /\ tasks[t].pc = "reload"
    /\ Ends(t, IF tasks[t].op = "remove_device" THEN "True" ELSE "ok")
    /\ \/ /\ coordinators' = Append(coordinators, async_load(persisted))
          /\ devices' = async_load(persisted)
       \/ UNCHANGED <<devices, coordinators>>
    /\ UNCHANGED <<nextUuid, persisted, saveFailures>>

RaceNext ==
    /\ \E t \in DOMAIN tasks :
           \/ TaskStarts(t)
           \/ CaptureReturns(t)
           \/ ExtractionReturns(t)
           \/ StoreWrites(t)
           \/ EntryReloads(t)
    /\ UNCHANGED <<last, last_sent_command, pc, call, inflight, trace, light, cover>>

SpecRace == InitRace /\ [][RaceNext]_vars

(***************************************************************************)
(* Sending: the remote entity's multi-command dispatch (remote.py) and     *)
(* IRDeviceCoordinator.async_send_command (coordinator.py), one step per   *)
(* suspension point. The store holds one device with two commands.         *)
(***************************************************************************)
SendDevice == 1

SendStore ==
    SendDevice :>
        [VirtualDevice(SendDevice, <<"t", "v">>, Blaster) EXCEPT
            !.commands =
                (<<"o", "n">> :> IRCommand(2, <<"O", "n">>, CodeABC, "ir", None))
                @@ (<<"u", "p">> :> IRCommand(3, <<"u", "p">>, CodeA, "ir", None))]

\* the names a dispatch is called with: "ON", "up" and a name the device lacks
SendNames == {<<"O", "N">>, <<"u", "p">>, <<"x">>}

DelaySecs == {0, 2}

RECURSIVE SeqsUpTo(_, _)
SeqsUpTo(S, n) ==
    IF n = 0 THEN {<<>>}
    ELSE LET shorter == SeqsUpTo(S, n - 1)
         IN  shorter \cup {Append(q, x) : q \in {t \in shorter : Len(t) = n - 1}, x \in S}

InitSend ==
    /\ devices = SendStore
    /\ persisted = <<async_save(SendStore)>>
    /\ last_sent_command = EmptyDict
    /\ nextUuid = 4
    /\ saveFailures = 0
    /\ last = [op |-> "init", arg |-> <<>>, result |-> "init", saves |-> 0, reloads |-> 0,
               captures |-> 0, extractions |-> 0]
    /\ pc = "idle"
    /\ call = Idle
    /\ inflight = 0
    /\ trace = <<>>
    /\ light = None
    /\ cover = None
    /\ tasks = <<>>
    /\ coordinators = <<>>

\* no operation has completed since the running one was called
Running == [op |-> "running", arg |-> <<>>, result |-> "running", saves |-> 0, reloads |-> 0,
            captures |-> 0, extractions |-> 0]

Event(ev, what) == [ev |-> ev, what |-> what]

\* a call ends: with the exception `result` or, for "ok", by returning
EndCall(op, result) ==
    /\ pc' = "idle"
    /\ last' = [op |-> op, arg |-> call.names, result |-> result, saves |-> 0,
                reloads |-> 0, captures |-> 0, extractions |-> 0]

\* VirtualRemoteEntity.async_send_command is called
StartDispatch ==
    /\ pc = "idle"
    /\ \E names \in SeqsUpTo(SendNames, MaxCommands), delay_secs \in DelaySecs,
          num_repeats \in 1..MaxRepeats :
           call' = [names |-> names, delay_secs |-> delay_secs, num_repeats |-> num_repeats,
                    i |-> 1, sent |-> 0, device_id |-> SendDevice, by |-> "remote"]
    /\ pc' = "loop"
    /\ trace' = <<>>
    /\ last' = Running
    /\ UNCHANGED <<light, cover, tasks, coordinators, last_sent_command, inflight, devices, persisted, nextUuid, saveFailures>>

\* the send_command service calls IRDeviceCoordinator.async_send_command
StartService ==
    /\ pc = "idle"
    /\ \E device_id \in {SendDevice, SendDevice + 1}, name \in SendNames,
          num_repeats \in 1..MaxRepeats :
           call' = [names |-> <<name>>, delay_secs |-> 0, num_repeats |-> num_repeats,
                    i |-> 1, sent |-> 0, device_id |-> device_id, by |-> "service"]
    /\ pc' = "send"
    /\ trace' = <<>>
    /\ last' = Running
    /\ UNCHANGED <<light, cover, tasks, coordinators, last_sent_command, inflight, devices, persisted, nextUuid, saveFailures>>

\* for i, cmd_name in enumerate(commands_list): the lookup of the next name
DispatchNext ==
    /\ pc = "loop"
    /\ IF call.i > Len(call.names)
       THEN /\ EndCall("dispatch", "ok")
            /\ UNCHANGED <<call, devices, persisted, nextUuid, saveFailures>>
       ELSE /\ IF Lower(call.names[call.i]) \in DOMAIN devices[SendDevice].commands
               THEN pc' = "send" /\ call' = call
               ELSE pc' = "loop" /\ call' = [call EXCEPT !.i = @ + 1]
            /\ UNCHANGED storeVars
    /\ UNCHANGED <<light, cover, tasks, coordinators, last_sent_command, inflight, trace>>

\* a variant that writes the marker before it looks the command up
SendLookup_marks ==
    /\ pc = "send"
    /\ last_sent_command' = Put(last_sent_command, call.device_id, call.names[call.i])
    /\ IF /\ call.device_id \in DOMAIN devices
          /\ Lower(call.names[call.i]) \in DOMAIN devices[call.device_id].commands
       THEN /\ pc' = "invoke"
            /\ call' = [call EXCEPT !.sent = 0]
            /\ UNCHANGED storeVars
       ELSE /\ EndCall("send_command", "NotFound")
            /\ UNCHANGED <<call, devices, persisted, nextUuid, saveFailures>>
    /\ UNCHANGED <<light, cover, tasks, coordinators, inflight, trace>>

\* async_send_command: the device and the command are looked up
SendLookup ==
    /\ pc = "send"
    /\ IF /\ call.device_id \in DOMAIN devices
          /\ Lower(call.names[call.i]) \in DOMAIN devices[call.device_id].commands
       THEN /\ pc' = "invoke"
            /\ call' = [call EXCEPT !.sent = 0]
            /\ UNCHANGED storeVars
       ELSE /\ EndCall("send_command", "NotFound")
            /\ UNCHANGED <<call, devices, persisted, nextUuid, saveFailures>>
    /\ UNCHANGED <<light, cover, tasks, coordinators, last_sent_command, inflight, trace>>

\* a variant that repeats once more
RepeatRange_plus_one(num_repeats) == 0..num_repeats

\* range(num_repeats)
RepeatRange(num_repeats) == 0..(num_repeats - 1)

\* a variant that does not wait for the call to complete
Blocking_false == FALSE

\* blocking=True
Blocking == TRUE

\* for _ in range(num_repeats): hass.services.async_call("remote", "send_command", ...)
SendInvoke ==
    /\ pc = "invoke"
    /\ call.sent \in RepeatRange(call.num_repeats)
    /\ inflight' = inflight + 1
    /\ trace' = Append(trace,
           Event("send", B64Prefix \o devices[call.device_id].commands[Lower(call.names[call.i])].code))
    /\ pc' = "await"
    /\ UNCHANGED <<light, cover, tasks, coordinators, call, last_sent_command, storeVars>>

\* the blaster completes a call
BlasterCompletes ==
    /\ inflight > 0
    /\ inflight' = inflight - 1
    /\ UNCHANGED <<light, cover, tasks, coordinators, pc, call, trace, last_sent_command, storeVars>>

\* the await of the service call returns
SendAwait ==
    /\ pc = "await"
    /\ Blocking => inflight = 0
    /\ call' = [call EXCEPT !.sent = @ + 1]
    /\ pc' = "invoke"
    /\ UNCHANGED <<light, cover, tasks, coordinators, inflight, trace, last_sent_command, storeVars>>

\* the blaster fails a call: the exception ends the send and its caller
BlasterFails ==
    /\ pc = "await"
    /\ inflight > 0
    /\ inflight' = inflight - 1
    /\ EndCall("send_command", "SendFailed")
    /\ UNCHANGED <<light, cover, tasks, coordinators, call, trace, last_sent_command, devices, persisted, nextUuid, saveFailures>>

\* self._last_sent_command[device_id] = command_name, after the loop
SendMark ==
    /\ pc = "invoke"
    /\ call.sent \notin RepeatRange(call.num_repeats)
    /\ last_sent_command' = Put(last_sent_command, call.device_id, call.names[call.i])
    /\ trace' = Append(trace, Event("mark", call.names[call.i]))
    /\ IF call.by = "remote"
       THEN /\ pc' = "sent"
            /\ UNCHANGED storeVars
       ELSE /\ EndCall("send_command", "ok")
            /\ UNCHANGED <<devices, persisted, nextUuid, saveFailures>>
    /\ UNCHANGED <<light, cover, tasks, coordinators, call, inflight>>

\* if delay_secs > 0 and i < len(commands_list) - 1: await asyncio.sleep(delay_secs)
\* (i counts from 0 there and from 1 here)
DispatchDelay ==
    /\ pc = "sent"
    /\ trace' = IF call.delay_secs > 0 /\ call.i - 1 < Len(call.names) - 1
                THEN Append(trace, Event("sleep", call.delay_secs))
                ELSE trace
    /\ call' = [call EXCEPT !.i = @ + 1]
    /\ pc' = "loop"
    /\ UNCHANGED <<light, cover, tasks, coordinators, last_sent_command, inflight, storeVars>>

NextSend ==
    \/ StartDispatch
    \/ StartService
    \/ DispatchNext
    \/ SendLookup
    \/ SendInvoke
    \/ BlasterCompletes
    \/ SendAwait
    \/ BlasterFails
    \/ SendMark
    \/ DispatchDelay

SpecSend == InitSend /\ [][NextSend]_vars

(***************************************************************************)
(* The specification of the light's adjustments (light.py): one call of    *)
(* IRLight._set_brightness on a light device, for every target 1..255 and  *)
(* every kind of brightness configuration, or one call of                  *)
(* IRLight._set_color_temp_kelvin, for every target 2000..6500 K and every *)
(* kind of colour temperature configuration.                               *)
(***************************************************************************)
DigitChars == <<"1", "2", "3", "4", "5", "6", "7", "8", "9">>

\* the command names of the brightness levels: b1, b2, ...
LevelName(i) == <<"b", DigitChars[i]>>

BrightnessUp == <<"u", "p">>
BrightnessDown == <<"d", "n">>

\* options["brightness_mode"], None when the option is not set
BrightnessModes == {"discrete", "both", "relative", "none", None}

\* the light's config: n brightness levels, the mode, and whether the up and
\* down commands are mapped
LightConfig(n, mode, updown) ==
    EntityConfig("light", TRUE,
        [brightness_levels |-> [i \in 1..n |-> LevelName(i)]]
            @@ (IF updown
                THEN [brightness_up |-> BrightnessUp, brightness_down |-> BrightnessDown]
                ELSE EmptyDict),
        [is_on |-> TRUE, brightness |-> 100, color_temp_index |-> 2, effect |-> None],
        IF mode = None THEN EmptyDict ELSE [brightness_mode |-> mode])

\* a store with one light device that has every command the config names
LightStore(n, mode, updown) ==
    SendDevice :>
        [VirtualDevice(SendDevice, <<"t", "v">>, Blaster) EXCEPT
            !.device_type = DEVICE_TYPE_LIGHT,
            !.commands =
                [k \in {LevelName(i) : i \in 1..MaxLevels} \cup {BrightnessUp, BrightnessDown}
                    |-> IRCommand(2, k, CodeA, "ir", None)],
            !.entity_configs = ("light" :> LightConfig(n, mode, updown))]

\* a relative-brightness config with options["brightness_step_size"] set and
\* another assumed brightness, so that |target - current| / step_size lies
\* halfway between two integers for some targets
SteppedLightStore ==
    [LightStore(0, "relative", TRUE) EXCEPT
        ![SendDevice].entity_configs["light"].options =
            [brightness_mode |-> "relative", brightness_step_size |-> 10],
        ![SendDevice].entity_configs["light"].state.brightness = 128]

\* the command names of the colour temperature presets: c1, c2, ... (coolest first)
PresetName(i) == <<"c", DigitChars[i]>>

ColorTempUp == <<"c", "u">>
ColorTempDown == <<"c", "d">>

MinKelvin == 2000
MaxKelvin == 6500

\* a light's config with n colour temperature presets, with or without the up
\* and down commands; the options are those the options flow writes for it
ColorTempConfig(n, updown) ==
    EntityConfig("light", TRUE,
        (IF n > 0 THEN [color_temp_levels |-> [i \in 1..n |-> PresetName(i)]] ELSE EmptyDict)
            @@ (IF updown
                THEN [color_temp_up |-> ColorTempUp, color_temp_down |-> ColorTempDown]
                ELSE EmptyDict),
        [is_on |-> TRUE, brightness |-> 255, color_temp_index |-> 2, effect |-> None],
        [brightness_mode |-> "none",
         color_temp_mode |-> IF updown THEN "both" ELSE IF n > 0 THEN "discrete" ELSE "none"])

ColorTempStore(n, updown) ==
    SendDevice :>
        [VirtualDevice(SendDevice, <<"t", "v">>, Blaster) EXCEPT
            !.device_type = DEVICE_TYPE_LIGHT,
            !.commands =
                [k \in {PresetName(i) : i \in 1..MaxPresets} \cup {ColorTempUp, ColorTempDown}
                    |-> IRCommand(2, k, CodeA, "ir", None)],
            !.entity_configs = ("light" :> ColorTempConfig(n, updown))]

\* IRLight._setup_features: what the light reports as supported
_setup_features(config) ==
    LET mappings == config.command_mappings
        options == config.options
        brightness_mode == Get(options, "brightness_mode", "none")
        has_brightness ==
            /\ brightness_mode # "none"
            /\ \/ Get(mappings, "brightness_levels", <<>>) # <<>>
               \/ Get(mappings, "brightness_up", None) # None
        has_color_temp ==
            \/ Get(mappings, "color_temp_levels", <<>>) # <<>>
            \/ Get(mappings, "color_temp_up", None) # None
        effects == Get(mappings, "effects", EmptyDict)
    IN  [supported_color_modes |->
             {"onoff"} \cup (IF has_brightness THEN {"brightness"} ELSE {})
                       \cup (IF has_color_temp THEN {"color_temp"} ELSE {}),
         color_mode |-> IF has_color_temp THEN "color_temp"
                        ELSE IF has_brightness THEN "brightness" ELSE "onoff",
         supported_features |-> IF effects # EmptyDict THEN {"effect"} ELSE {}]

\* IRLight.__init__: the entity's assumed state starts from the config's saved
\* state, and its features are set up
IRLight(config) ==
    [is_on |-> Get(config.state, "is_on", FALSE),
     brightness |-> Get(config.state, "brightness", 255),
     color_temp_index |-> Get(config.state, "color_temp_index", 2),
     effect |-> Get(config.state, "effect", None)]
    @@ _setup_features(config)

InitLight ==
    /\ \/ /\ devices \in {LightStore(n, mode, updown) :
                              n \in 0..MaxLevels, mode \in BrightnessModes, updown \in BOOLEAN}
                          \cup {SteppedLightStore}
          /\ call \in {[target |-> t, attr |-> "brightness", by |-> "light"] : t \in 1..255}
       \/ /\ devices \in {ColorTempStore(n, updown) : n \in 0..MaxPresets, updown \in BOOLEAN}
          /\ call \in {[target |-> t, attr |-> "color_temp", by |-> "light"] :
                           t \in MinKelvin..MaxKelvin}
    /\ persisted = <<async_save(devices)>>
    /\ last_sent_command = EmptyDict
    /\ nextUuid = 3
    /\ saveFailures = 0
    /\ last = [op |-> "init", arg |-> <<>>, result |-> "init", saves |-> 0, reloads |-> 0,
               captures |-> 0, extractions |-> 0]
    /\ pc = "idle"
    /\ inflight = 0
    /\ trace = <<>>
    /\ light = IRLight(devices[SendDevice].entity_configs["light"])
    /\ cover = None
    /\ tasks = <<>>
    /\ coordinators = <<>>

\* a variant that truncates, as int() does
PyRound_truncate(num, den) == num \div den

\* a variant that rounds a half up
PyRound_half_up(num, den) == (2 * num + den) \div (2 * den)

\* round(num / den) for num >= 0, den > 0: the nearest integer, the even one of
\* the two when num / den lies halfway
PyRound(num, den) ==
    LET q == num \div den
        r == num % den
    IN  IF 2 * r < den THEN q
        ELSE IF 2 * r > den THEN q + 1
        ELSE IF q % 2 = 0 THEN q ELSE q + 1

\* a variant that takes the larger
Min_larger(a, b) == IF a < b THEN b ELSE a

Min(a, b) == IF a < b THEN a ELSE b
Max(a, b) == IF a > b THEN a ELSE b

\* a variant that counts the levels from the brightest, as the colour
\* temperature presets are counted from the coolest
_set_brightness_inverted(config, brightness, target_brightness) ==
    LET mappings == config.command_mappings
        options == config.options
        brightness_mode == Get(options, "brightness_mode", "discrete")
        levels == Get(mappings, "brightness_levels", <<>>)
        num_levels == Len(levels)
        target_index ==
            Max(0, Min(PyRound((255 - target_brightness) * (num_levels - 1), 254),
                       num_levels - 1))
        up_cmd == Get(mappings, "brightness_up", None)
        down_cmd == Get(mappings, "brightness_down", None)
        step_size == Get(options, "brightness_step_size", 25)
        diff == target_brightness - brightness
        steps == PyRound(IF diff < 0 THEN 0 - diff ELSE diff, step_size)
    IN  IF brightness_mode \in {"discrete", "both"} /\ levels # <<>>
        THEN <<levels[target_index + 1]>>
        ELSE IF brightness_mode = "relative" /\ up_cmd # None /\ down_cmd # None
        THEN IF diff > 0 THEN [i \in 1..steps |-> up_cmd]
             ELSE IF diff < 0 THEN [i \in 1..steps |-> down_cmd]
             ELSE <<>>
        ELSE <<>>

\* the command names _set_brightness sends, in order, for the light's config,
\* its assumed brightness and the target
_set_brightness(config, brightness, target_brightness) ==
    LET mappings == config.command_mappings
        options == config.options
        brightness_mode == Get(options, "brightness_mode", "discrete")
        levels == Get(mappings, "brightness_levels", <<>>)
        num_levels == Len(levels)
        target_index ==
            Max(0, Min(PyRound((target_brightness - 1) * (num_levels - 1), 254),
                       num_levels - 1))
        up_cmd == Get(mappings, "brightness_up", None)
        down_cmd == Get(mappings, "brightness_down", None)
        step_size == Get(options, "brightness_step_size", 25)
        diff == target_brightness - brightness
        steps == PyRound(IF diff < 0 THEN 0 - diff ELSE diff, step_size)
    IN  IF brightness_mode \in {"discrete", "both"} /\ levels # <<>>
        THEN <<levels[target_index + 1]>>
        ELSE IF brightness_mode = "relative" /\ up_cmd # None /\ down_cmd # None
        THEN IF diff > 0 THEN [i \in 1..steps |-> up_cmd]
             ELSE IF diff < 0 THEN [i \in 1..steps |-> down_cmd]
             ELSE <<>>
        ELSE <<>>

\* IRLight._send_command for each of cmds in turn: the first whose command is
\* not on the device raises, and so does the failAt-th when the blaster fails
\* it (failAt = 0: none fails); how many were issued and how many completed
LightSends(cmds, failAt) ==
    LET unknown == {i \in DOMAIN cmds : Lower(cmds[i]) \notin DOMAIN devices[SendDevice].commands}
        first == IF unknown = {} THEN 0 ELSE CHOOSE i \in unknown : \A j \in unknown : i <= j
        stop == IF first # 0 /\ (failAt = 0 \/ first <= failAt) THEN first ELSE failAt
    IN  [issued |-> IF stop = 0 THEN Len(cmds) ELSE stop,
         completed |-> IF stop = 0 THEN Len(cmds) ELSE stop - 1,
         result |-> IF stop = 0 THEN "ok"
                    ELSE IF stop = first THEN "NotFound" ELSE "SendFailed"]

\* one call of IRLight._set_brightness: its commands go to
\* IRDeviceCoordinator.async_send_command one after the other
SetBrightness ==
    LET config == devices[SendDevice].entity_configs["light"]
        cmds == _set_brightness(config, light.brightness, call.target)
    IN  /\ call.attr = "brightness"
        /\ \E failAt \in 0..Len(cmds) :
              LET s == LightSends(cmds, failAt)
              IN  /\ trace' = [i \in 1..s.issued |-> Event("command", cmds[i])]
                  /\ last_sent_command' =
                         IF s.completed = 0 THEN last_sent_command
                         ELSE Put(last_sent_command, SendDevice, cmds[s.completed])
                  /\ last' = [op |-> "set_brightness", arg |-> call.target, result |-> s.result,
                              saves |-> 0, reloads |-> 0, captures |-> 0, extractions |-> 0]
                  /\ UNCHANGED <<devices, persisted, nextUuid, saveFailures, pc, call, inflight,
                                 light, cover, tasks, coordinators>>

\* IRLight._index_to_kelvin: int() drops the fraction
_index_to_kelvin(config, index) ==
    LET levels == Get(config.command_mappings, "color_temp_levels", <<>>)
        num_levels == Len(levels)
        kelvin_range == MaxKelvin - MinKelvin
        num == MaxKelvin * (num_levels - 1) - index * kelvin_range
    IN  IF levels = <<>> THEN 4000
        ELSE IF num_levels = 1 THEN 4000
        ELSE IF num >= 0 THEN num \div (num_levels - 1)
        ELSE 0 - ((0 - num) \div (num_levels - 1))

\* a variant that takes the first preset for the warmest
_set_color_temp_kelvin_warm_first(config, color_temp_index, target_kelvin) ==
    LET mappings == config.command_mappings
        levels == Get(mappings, "color_temp_levels", <<>>)
        num_levels == Len(levels)
        kelvin_range == MaxKelvin - MinKelvin
        target_index ==
            Max(0, Min(PyRound((target_kelvin - MinKelvin) * (num_levels - 1), kelvin_range),
                       num_levels - 1))
        up_cmd == Get(mappings, "color_temp_up", None)
        down_cmd == Get(mappings, "color_temp_down", None)
        diff == target_kelvin - _index_to_kelvin(config, color_temp_index)
        steps == PyRound(IF diff < 0 THEN 0 - diff ELSE diff, 500)
    IN  IF levels # <<>>
        THEN [cmds |-> <<levels[target_index + 1]>>, color_temp_index |-> target_index]
        ELSE [cmds |-> IF up_cmd # None /\ down_cmd # None
                       THEN IF diff > 0 THEN [i \in 1..steps |-> up_cmd]
                            ELSE IF diff < 0 THEN [i \in 1..steps |-> down_cmd]
                            ELSE <<>>
                       ELSE <<>>,
              color_temp_index |-> color_temp_index]

\* IRLight._set_color_temp_kelvin: the command names it sends, in order, and the
\* index it records once they are sent
_set_color_temp_kelvin(config, color_temp_index, target_kelvin) ==
    LET mappings == config.command_mappings
        levels == Get(mappings, "color_temp_levels", <<>>)
        num_levels == Len(levels)
        kelvin_range == MaxKelvin - MinKelvin
        target_index ==
            Max(0, Min(PyRound((MaxKelvin - target_kelvin) * (num_levels - 1), kelvin_range),
                       num_levels - 1))
        up_cmd == Get(mappings, "color_temp_up", None)
        down_cmd == Get(mappings, "color_temp_down", None)
        diff == target_kelvin - _index_to_kelvin(config, color_temp_index)
        steps == PyRound(IF diff < 0 THEN 0 - diff ELSE diff, 500)
    IN  IF levels # <<>>
        THEN [cmds |-> <<levels[target_index + 1]>>, color_temp_index |-> target_index]
        ELSE [cmds |-> IF up_cmd # None /\ down_cmd # None
                       THEN IF diff > 0 THEN [i \in 1..steps |-> up_cmd]
                            ELSE IF diff < 0 THEN [i \in 1..steps |-> down_cmd]
                            ELSE <<>>
                       ELSE <<>>,
              color_temp_index |-> color_temp_index]

\* one call of IRLight._set_color_temp_kelvin
SetColorTemp ==
    LET config == devices[SendDevice].entity_configs["light"]
        r == _set_color_temp_kelvin(config, light.color_temp_index, call.target)
    IN  /\ call.attr = "color_temp"
        /\ \E failAt \in 0..Len(r.cmds) :
              LET s == LightSends(r.cmds, failAt)
              IN  /\ trace' = [i \in 1..s.issued |-> Event("command", r.cmds[i])]
                  /\ last_sent_command' =
                         IF s.completed = 0 THEN last_sent_command
                         ELSE Put(last_sent_command, SendDevice, r.cmds[s.completed])
                  /\ light' = IF s.result = "ok"
                              THEN [light EXCEPT !.color_temp_index = r.color_temp_index]
                              ELSE light
                  /\ last' = [op |-> "set_color_temp", arg |-> call.target, result |-> s.result,
                              saves |-> 0, reloads |-> 0, captures |-> 0, extractions |-> 0]
                  /\ UNCHANGED <<devices, persisted, nextUuid, saveFailures, pc, call, inflight,
                                 cover, tasks, coordinators>>

LightNext ==
    \/ SetBrightness
    \/ SetColorTemp

SpecLight == InitLight /\ [][LightNext]_vars

(***************************************************************************)
(* The specification of the light's power (light.py): a turn-on request,   *)
(* with or without a brightness, a colour temperature and an effect, or a  *)
(* turn-off request, on a light of every kind of configuration that is     *)
(* assumed on or off.                                                      *)
(***************************************************************************)
TurnOnName == <<"o", "n">>
TurnOffName == <<"o", "f">>
ToggleName == <<"t", "g">>
NightlightName == <<"n", "l">>

\* which power commands are mapped; how brightness is set
PowerMappings == {"turn_on", "both", "toggle", "none"}
BrightnessMappings == {"discrete", "relative", "none"}

\* a light's config as the options flow writes it, with the saved state of a
\* light that is on or off
TurnOnConfig(power, bright, presets, effects, is_on) ==
    EntityConfig("light", TRUE,
        (IF power = "turn_on" THEN [turn_on |-> TurnOnName, turn_off |-> TurnOffName]
         ELSE IF power = "both" THEN [turn_on |-> TurnOnName, toggle |-> ToggleName]
         ELSE IF power = "toggle" THEN [toggle |-> ToggleName]
         ELSE EmptyDict)
        @@ (IF bright = "discrete" THEN [brightness_levels |-> [i \in 1..3 |-> LevelName(i)]]
            ELSE IF bright = "relative"
            THEN [brightness_up |-> BrightnessUp, brightness_down |-> BrightnessDown]
            ELSE EmptyDict)
        @@ (IF presets THEN [color_temp_levels |-> [i \in 1..3 |-> PresetName(i)]]
            ELSE EmptyDict)
        @@ (IF effects THEN [effects |-> [Nightlight |-> NightlightName]] ELSE EmptyDict),
        [is_on |-> is_on, brightness |-> 255, color_temp_index |-> 2],
        [brightness_mode |-> bright,
         color_temp_mode |-> IF presets THEN "discrete" ELSE "none"])

TurnOnStore(power, bright, presets, effects, is_on) ==
    SendDevice :>
        [VirtualDevice(SendDevice, <<"t", "v">>, Blaster) EXCEPT
            !.device_type = DEVICE_TYPE_LIGHT,
            !.commands =
                [k \in {TurnOnName, TurnOffName, ToggleName, NightlightName,
                        BrightnessUp, BrightnessDown}
                       \cup {LevelName(i) : i \in 1..3} \cup {PresetName(i) : i \in 1..3}
                    |-> IRCommand(2, k, CodeA, "ir", None)],
            !.entity_configs = ("light" :> TurnOnConfig(power, bright, presets, effects, is_on))]

\* the keyword arguments of a turn-on request: ATTR_BRIGHTNESS, ATTR_COLOR_TEMP
\* and ATTR_EFFECT, each given or not
TurnOnCalls ==
    {b @@ c @@ e :
        b \in {EmptyDict, [brightness |-> 200]},
        c \in {EmptyDict, [color_temp |-> 5000]},
        e \in {EmptyDict, [effect |-> "Nightlight"], [effect |-> "Strobe"]}}

InitTurnOn ==
    /\ devices \in {TurnOnStore(power, bright, presets, effects, is_on) :
                        power \in PowerMappings, bright \in BrightnessMappings,
                        presets \in BOOLEAN, effects \in BOOLEAN, is_on \in BOOLEAN}
    /\ persisted = <<async_save(devices)>>
    /\ last_sent_command = EmptyDict
    /\ nextUuid = 3
    /\ saveFailures = 0
    /\ last = [op |-> "init", arg |-> <<>>, result |-> "init", saves |-> 0, reloads |-> 0,
               captures |-> 0, extractions |-> 0]
    /\ pc = "idle"
    /\ call \in {[op |-> "turn_on", kwargs |-> kwargs, by |-> "light"] : kwargs \in TurnOnCalls}
                \cup {[op |-> "turn_off", kwargs |-> EmptyDict, by |-> "light"]}
    /\ inflight = 0
    /\ trace = <<>>
    /\ light = IRLight(devices[SendDevice].entity_configs["light"])
    /\ cover = None
    /\ tasks = <<>>
    /\ coordinators = <<>>

\* IRLight._set_effect: the command names it sends
_set_effect(config, effect_name) ==
    LET effects == Get(config.command_mappings, "effects", EmptyDict)
    IN  IF effect_name \in DOMAIN effects THEN <<effects[effect_name]>> ELSE <<>>

\* the parts of async_turn_on: the command names a part sends, in order, and
\* the entity's assumed state once the part is through
\* a variant that sends the power command whatever the assumed state
TurnOnPower_always(config, l) ==
    LET mappings == config.command_mappings
        cmd == Get(mappings, "turn_on", Get(mappings, "toggle", None))
    IN  [cmds |-> IF cmd # None THEN <<cmd>> ELSE <<>>, light |-> [l EXCEPT !.is_on = TRUE]]

TurnOnPower(config, l) ==
    LET mappings == config.command_mappings
        cmd == Get(mappings, "turn_on", Get(mappings, "toggle", None))
    IN  IF ~l.is_on
        THEN [cmds |-> IF cmd # None THEN <<cmd>> ELSE <<>>, light |-> [l EXCEPT !.is_on = TRUE]]
        ELSE [cmds |-> <<>>, light |-> l]

TurnOnBrightness(config, l, kwargs) ==
    IF "brightness" \in DOMAIN kwargs
    THEN [cmds |-> _set_brightness(config, l.brightness, kwargs["brightness"]),
          light |-> [l EXCEPT !.brightness = kwargs["brightness"]]]
    ELSE [cmds |-> <<>>, light |-> l]

TurnOnColorTemp(config, l, kwargs) ==
    IF "color_temp" \in DOMAIN kwargs
    THEN LET r == _set_color_temp_kelvin(config, l.color_temp_index, kwargs["color_temp"])
         IN  [cmds |-> r.cmds, light |-> [l EXCEPT !.color_temp_index = r.color_temp_index]]
    ELSE [cmds |-> <<>>, light |-> l]

TurnOnEffect(config, l, kwargs) ==
    IF "effect" \in DOMAIN kwargs
    THEN [cmds |-> _set_effect(config, kwargs["effect"]),
          light |-> [l EXCEPT !.effect = kwargs["effect"]]]
    ELSE [cmds |-> <<>>, light |-> l]

\* a variant that applies the adjustments before it turns the light on
async_turn_on_adjust_first(config, l, kwargs) ==
    LET brightness == TurnOnBrightness(config, l, kwargs)
        color_temp == TurnOnColorTemp(config, brightness.light, kwargs)
        effect == TurnOnEffect(config, color_temp.light, kwargs)
        power == TurnOnPower(config, effect.light)
    IN  <<brightness, color_temp, effect, power>>

\* IRLight.async_turn_on up to the save: its parts in order
async_turn_on(config, l, kwargs) ==
    LET power == TurnOnPower(config, l)
        brightness == TurnOnBrightness(config, power.light, kwargs)
        color_temp == TurnOnColorTemp(config, brightness.light, kwargs)
        effect == TurnOnEffect(config, color_temp.light, kwargs)
    IN  <<power, brightness, color_temp, effect>>

\* IRLight.async_turn_off up to the save
async_turn_off(config, l) ==
    LET mappings == config.command_mappings
        cmd == Get(mappings, "turn_off", Get(mappings, "toggle", None))
    IN  <<[cmds |-> IF cmd # None THEN <<cmd>> ELSE <<>>,
           light |-> [l EXCEPT !.is_on = FALSE, !.effect = None]]>>

\* a variant that leaves the effect out of what it saves
_save_state_without_effect(state, l) ==
    Put(Put(Put(state, "is_on", l.is_on), "brightness", l.brightness),
        "color_temp_index", l.color_temp_index)

\* IRLight._save_state: the assumed state goes into the config's state
_save_state(state, l) ==
    Put(Put(Put(Put(state, "is_on", l.is_on), "brightness", l.brightness),
            "color_temp_index", l.color_temp_index), "effect", l.effect)

RECURSIVE PartCmds(_)
PartCmds(parts) == IF parts = <<>> THEN <<>> ELSE Head(parts).cmds \o PartCmds(Tail(parts))

\* a request of the light runs its parts: each send may raise (the command is
\* not on the device, or the blaster fails it), which ends the request with the
\* parts before it applied and nothing saved; a request that gets through
\* saves the assumed state, and the write may fail
LightRequest(op, arg, parts) ==
    LET cmds == PartCmds(parts)
        config == devices[SendDevice].entity_configs["light"]
    IN  \E failAt \in 0..Len(cmds), written \in BOOLEAN :
            LET s == LightSends(cmds, failAt)
                through == {j \in DOMAIN parts : Len(PartCmds(SubSeq(parts, 1, j))) <= s.completed}
                reached == IF s.result = "ok" THEN parts[Len(parts)].light
                           ELSE IF through = {} THEN light
                           ELSE parts[CHOOSE j \in through : \A k \in through : k <= j].light
                saved == [devices EXCEPT ![SendDevice].entity_configs["light"].state =
                                             _save_state(@, reached)]
            IN  /\ s.result # "ok" => written
                /\ ~written => saveFailures < MaxSaveFailures
                /\ trace' = [i \in 1..s.issued |-> Event("command", cmds[i])]
                /\ last_sent_command' =
                       IF s.completed = 0 THEN last_sent_command
                       ELSE Put(last_sent_command, SendDevice, cmds[s.completed])
                /\ light' = reached
                /\ devices' = IF s.result = "ok" THEN saved ELSE devices
                /\ persisted' = IF s.result = "ok" /\ written THEN <<async_save(saved)>>
                                ELSE persisted
                /\ saveFailures' = IF written THEN saveFailures ELSE saveFailures + 1
                /\ last' = [op |-> op, arg |-> arg,
                            result |-> IF s.result # "ok" THEN s.result
                                       ELSE IF written THEN "ok" ELSE "PersistenceFailed",
                            saves |-> IF s.result = "ok" THEN 1 ELSE 0, reloads |-> 0,
                            captures |-> 0, extractions |-> 0]
                /\ UNCHANGED <<nextUuid, pc, call, inflight, cover, tasks, coordinators>>

\* IRLight.async_turn_on
TurnOn ==
    /\ call.op = "turn_on"
    /\ LightRequest("turn_on", call.kwargs,
           async_turn_on(devices[SendDevice].entity_configs["light"], light, call.kwargs))

\* IRLight.async_turn_off
TurnOff ==
    /\ call.op = "turn_off"
    /\ LightRequest("turn_off", EmptyDict,
           async_turn_off(devices[SendDevice].entity_configs["light"], light))

TurnOnNext ==
    \/ TurnOn
    \/ TurnOff

SpecTurnOn == InitTurnOn /\ [][TurnOnNext]_vars

(***************************************************************************)
(* The specification of the cover (cover.py): a cover entity over the      *)
(* config the options flow writes, with any of open, close and stop        *)
(* mapped, is opened, closed and stopped in any order.  is_closed is       *)
(* Python's True, False or None, written "True", "False" and None.         *)
(***************************************************************************)
OpenName == <<"o", "p">>
CloseName == <<"c", "l">>
StopName == <<"s", "t">>

\* async_step_configure_cover: the mappings that were chosen, the default state
CoverConfig(open, close, stop) ==
    EntityConfig("cover", TRUE,
        (IF open THEN [open |-> OpenName] ELSE EmptyDict)
        @@ (IF close THEN [close |-> CloseName] ELSE EmptyDict)
        @@ (IF stop THEN [stop |-> StopName] ELSE EmptyDict),
        [position |-> 50],
        [device_class |-> "shade"])

\* a store with one cover device; the device has the commands of `learned`
CoverStore(open, close, stop, learned) ==
    SendDevice :>
        [VirtualDevice(SendDevice, <<"t", "v">>, Blaster) EXCEPT
            !.device_type = DEVICE_TYPE_COVER,
            !.commands = [k \in learned |-> IRCommand(2, k, CodeA, "ir", None)],
            !.entity_configs = ("cover" :> CoverConfig(open, close, stop))]

\* IRCover.__init__: the assumed state starts from the config's saved state
IRCover(config) ==
    [is_closed |-> Get(config.state, "is_closed", None),
     position |-> Get(config.state, "position", 50)]

InitCover ==
    /\ devices \in {CoverStore(open, close, stop, learned) :
                        open \in BOOLEAN, close \in BOOLEAN, stop \in BOOLEAN,
                        learned \in {{OpenName, CloseName, StopName}, {OpenName, CloseName}}}
    /\ persisted = <<async_save(devices)>>
    /\ last_sent_command = EmptyDict
    /\ nextUuid = 3
    /\ saveFailures = 0
    /\ last = [op |-> "init", arg |-> <<>>, result |-> "init", saves |-> 0, reloads |-> 0,
               captures |-> 0, extractions |-> 0]
    /\ pc = "idle"
    /\ call = Idle
    /\ inflight = 0
    /\ trace = <<>>
    /\ light = None
    /\ cover = IRCover(devices[SendDevice].entity_configs["cover"])
    /\ tasks = <<>>
    /\ coordinators = <<>>

\* a variant that leaves is_closed as it was when the cover is opened
async_open_cover_keeps_is_closed(c) == [c EXCEPT !.position = 100]

\* the assumed state after each operation's assignments
async_open_cover(c) == [is_closed |-> "False", position |-> 100]

async_close_cover(c) == [is_closed |-> "True", position |-> 0]

async_stop_cover(c) ==
    IF c.position \in {0, 100} THEN [is_closed |-> None, position |-> 50] ELSE c

\* IRCover._save_state: the assumed state goes into the config's state
IRCover_save_state(state, c) ==
    Put(Put(state, "is_closed", c.is_closed), "position", c.position)

\* one operation of the cover: the mapped command, if any, is sent, which may
\* raise (the command is not on the device, or the blaster fails it) and then
\* ends the operation with nothing assigned; else the assumed state is
\* assigned and saved, and the write may fail
CoverRequest(op, mapping, reached) ==
    LET config == devices[SendDevice].entity_configs["cover"]
        cmds == IF mapping \in DOMAIN config.command_mappings
                THEN <<config.command_mappings[mapping]>> ELSE <<>>
    IN  \E failAt \in 0..Len(cmds), written \in BOOLEAN :
            LET s == LightSends(cmds, failAt)
                saved == [devices EXCEPT ![SendDevice].entity_configs["cover"].state =
                                             IRCover_save_state(@, reached)]
            IN  /\ s.result # "ok" => written
                /\ ~written => saveFailures < MaxSaveFailures
                /\ trace' = [i \in 1..s.issued |-> Event("command", cmds[i])]
                /\ last_sent_command' =
                       IF s.completed = 0 THEN last_sent_command
                       ELSE Put(last_sent_command, SendDevice, cmds[s.completed])
                /\ cover' = IF s.result = "ok" THEN reached ELSE cover
                /\ devices' = IF s.result = "ok" THEN saved ELSE devices
                /\ persisted' = IF s.result = "ok" /\ written THEN <<async_save(saved)>>
                                ELSE persisted
                /\ saveFailures' = IF written THEN saveFailures ELSE saveFailures + 1
                /\ last' = [op |-> op, arg |-> cover,
                            result |-> IF s.result # "ok" THEN s.result
                                       ELSE IF written THEN "ok" ELSE "PersistenceFailed",
                            saves |-> IF s.result = "ok" THEN 1 ELSE 0, reloads |-> 0,
                            captures |-> 0, extractions |-> 0]
                /\ UNCHANGED <<nextUuid, pc, call, inflight, light, tasks, coordinators>>

OpenCover == CoverRequest("open_cover", "open", async_open_cover(cover))

CloseCover == CoverRequest("close_cover", "close", async_close_cover(cover))

StopCover == CoverRequest("stop_cover", "stop", async_stop_cover(cover))

CoverNext ==
    \/ OpenCover
    \/ CloseCover
    \/ StopCover

SpecCover == InitCover /\ [][CoverNext]_vars

(***************************************************************************)
(* The specification of the relative colour temperature (light.py): a      *)
(* light with the warmer and cooler commands and no presets gets the same  *)
(* turn-on request, with a colour temperature, again and again.            *)
(***************************************************************************)
\* the colour temperatures asked for, in Kelvin
RelativeTargets == {2700, 3000, 4000, 4200, 5000, 6500}

\* async_step_configure_light with the power commands and the warmer and
\* cooler commands chosen, and the saved state of a light that is on or off
RelativeTempConfig(is_on) ==
    EntityConfig("light", TRUE,
        [turn_on |-> TurnOnName, turn_off |-> TurnOffName,
         color_temp_up |-> ColorTempUp, color_temp_down |-> ColorTempDown],
        [is_on |-> is_on, brightness |-> 255, color_temp_index |-> 2],
        [brightness_mode |-> "none", color_temp_mode |-> "relative"])

RelativeTempStore(is_on) ==
    SendDevice :>
        [VirtualDevice(SendDevice, <<"t", "v">>, Blaster) EXCEPT
            !.device_type = DEVICE_TYPE_LIGHT,
            !.commands = [k \in {TurnOnName, TurnOffName, ColorTempUp, ColorTempDown}
                             |-> IRCommand(2, k, CodeA, "ir", None)],
            !.entity_configs = ("light" :> RelativeTempConfig(is_on))]

InitRelativeTemp ==
    /\ devices \in {RelativeTempStore(is_on) : is_on \in BOOLEAN}
    /\ persisted = <<async_save(devices)>>
    /\ last_sent_command = EmptyDict
    /\ nextUuid = 3
    /\ saveFailures = 0
    /\ last = [op |-> "init", arg |-> <<>>, result |-> "init", saves |-> 0, reloads |-> 0,
               captures |-> 0, extractions |-> 0]
    /\ pc = "idle"
    /\ call \in {[op |-> "turn_on", kwargs |-> [color_temp |-> t], by |-> "light"] :
                     t \in RelativeTargets}
                \cup {[op |-> "turn_off", kwargs |-> EmptyDict, by |-> "light"]}
    /\ inflight = 0
    /\ trace = <<>>
    /\ light = IRLight(devices[SendDevice].entity_configs["light"])
    /\ cover = None
    /\ tasks = <<>>
    /\ coordinators = <<>>

SpecRelativeTemp == InitRelativeTemp /\ [][TurnOnNext]_vars

(***************************************************************************)
(* The specification of the light configuration step (config_flow.py): the *)
(* form of async_step_configure_light is submitted, again and again, for a *)
(* device with or without a light config, between saves of the light's     *)
(* assumed state.  An empty form field is the empty string, <<>>.          *)
(***************************************************************************)
\* what the form can hold; the level lists are left empty
ConfigureLightInputs ==
    {[turn_on |-> on, turn_off |-> off,
      brightness_mode |-> bm, brightness_levels |-> <<>>,
      brightness_up |-> BrightnessUp, brightness_down |-> BrightnessDown,
      color_temp_mode |-> cm, color_temp_levels |-> <<>>,
      color_temp_up |-> ColorTempUp, color_temp_down |-> <<>>,
      effect_nightlight |-> fx] :
        on \in {<<>>, TurnOnName}, off \in {TurnOffName},
        bm \in {"none", "relative"}, cm \in {"both"},
        fx \in {<<>>, NightlightName}}

\* the assumed states an entity has saved: as the flow writes it, and after
\* requests to the light
ConfigureLightStates ==
    {[is_on |-> FALSE, brightness |-> 255, color_temp_index |-> 2],
     [is_on |-> TRUE, brightness |-> 200, color_temp_index |-> 0, effect |-> "Nightlight"],
     [is_on |-> FALSE, brightness |-> 200, color_temp_index |-> 2, effect |-> None]}

ConfigureLightStore(configured) ==
    SendDevice :>
        [VirtualDevice(SendDevice, <<"t", "v">>, Blaster) EXCEPT
            !.device_type = DEVICE_TYPE_LIGHT,
            !.commands = [k \in {TurnOnName, TurnOffName, NightlightName,
                                 BrightnessUp, BrightnessDown, ColorTempUp}
                             |-> IRCommand(2, k, CodeA, "ir", None)],
            !.entity_configs =
                IF configured
                THEN "light" :> EntityConfig("light", TRUE, [turn_on |-> TurnOnName],
                                    [is_on |-> FALSE, brightness |-> 255, color_temp_index |-> 2],
                                    [brightness_mode |-> "none", color_temp_mode |-> "none"])
                ELSE EmptyDict]

InitConfigureLight ==
    /\ devices \in {ConfigureLightStore(configured) : configured \in BOOLEAN}
    /\ persisted = <<async_save(devices)>>
    /\ last_sent_command = EmptyDict
    /\ nextUuid = 3
    /\ saveFailures = 0
    /\ last = [op |-> "init", arg |-> <<>>, result |-> "init", saves |-> 0, reloads |-> 0,
               captures |-> 0, extractions |-> 0]
    /\ pc = "idle"
    /\ call = Idle
    /\ inflight = 0
    /\ trace = <<>>
    /\ light = None
    /\ cover = None
    /\ tasks = <<>>
    /\ coordinators = <<>>

\* async_step_configure_light with the form submitted: the mappings are built
\* from the fields that are filled in, the state is looked up under "state"
\* in the current command mappings, and the config replaces the device's
async_step_configure_light(device_id, user_input) ==
    IF device_id \notin DOMAIN devices
    THEN Returns([op |-> "configure_light", arg |-> user_input], "init", NoEffects)
    ELSE
    LET device == devices[device_id]
        current_mappings == IF "light" \in DOMAIN device.entity_configs
                            THEN device.entity_configs["light"].command_mappings
                            ELSE EmptyDict
        brightness_mode == user_input.brightness_mode
        color_temp_mode == user_input.color_temp_mode
        Field(k, v) == IF v # <<>> THEN k :> v ELSE EmptyDict
        mappings ==
            Field("turn_on", user_input.turn_on)
            @@ Field("turn_off", user_input.turn_off)
            @@ (IF brightness_mode \in {"discrete", "both"}
                THEN Field("brightness_levels", user_input.brightness_levels)
                ELSE EmptyDict)
            @@ (IF brightness_mode \in {"relative", "both"}
                THEN Field("brightness_up", user_input.brightness_up)
                     @@ Field("brightness_down", user_input.brightness_down)
                ELSE EmptyDict)
            @@ (IF color_temp_mode \in {"discrete", "both"}
                THEN Field("color_temp_levels", user_input.color_temp_levels)
                ELSE EmptyDict)
            @@ (IF color_temp_mode \in {"relative", "both"}
                THEN Field("color_temp_up", user_input.color_temp_up)
                     @@ Field("color_temp_down", user_input.color_temp_down)
                ELSE EmptyDict)
            @@ (IF user_input.effect_nightlight # <<>>
                THEN [effects |-> [Nightlight |-> user_input.effect_nightlight]]
                ELSE EmptyDict)
        config == EntityConfig("light", TRUE, mappings,
                      Get(current_mappings, "state",
                          [is_on |-> FALSE, brightness |-> 255, color_temp_index |-> 2]),
                      [brightness_mode |-> brightness_mode, color_temp_mode |-> color_temp_mode])
    IN  async_update_entity_config(device_id, "light", config)

ConfigureLight ==
    \E d \in DeviceIds, user_input \in ConfigureLightInputs :
        async_step_configure_light(d, user_input)

\* IRLight._save_state, from the light entity of a device that has one
ConfigureLightSaveState ==
    \E state \in ConfigureLightStates :
        /\ "light" \in DOMAIN devices[SendDevice].entity_configs
        /\ async_save_entity_state(SendDevice, "light", state)

ConfigureLightNext ==
    /\ \/ ConfigureLight
       \/ ConfigureLightSaveState
    /\ UNCHANGED sendVars

SpecConfigureLight == InitConfigureLight /\ [][ConfigureLightNext]_vars

(***************************************************************************)
(* The specification of code extraction (adapters.py): one call of         *)
(* AdapterRegistry.retrieve_learned_code, for a blaster entity of every     *)
(* kind of registry entry and every kind of Broadlink codes file.          *)
(***************************************************************************)
Mac == <<"a", "4", "b", "1", "c", "2", "d", "3", "e", "4", "f", "5">>
MacUpperColons ==
    <<"A", "4", ":", "B", "1", ":", "C", "2", ":", "D", "3", ":", "E", "4", ":", "F", "5">>

\* the entity registry's entry of the blaster entity: its platform, its
\* unique_id and the identifiers of its device (none without a device)
RegistryEntries ==
    { [registered |-> FALSE],
      [registered |-> TRUE, platform |-> "tuya", unique_id |-> Mac, identifiers |-> {}],
      [registered |-> TRUE, platform |-> "broadlink", unique_id |-> Mac, identifiers |-> {}],
      [registered |-> TRUE, platform |-> "broadlink",
       unique_id |-> MacUpperColons \o <<"_", "r">>, identifiers |-> {}],
      [registered |-> TRUE, platform |-> "broadlink", unique_id |-> <<"r", "m">>,
       identifiers |-> {<<"broadlink", MacUpperColons>>}],
      [registered |-> TRUE, platform |-> "broadlink", unique_id |-> <<"r", "m">>,
       identifiers |-> {}] }

TempDevice == <<"_", "r", "i", "d", "m", "_", "1">>
TempCommand == <<"_", "t", "e", "m", "p", "_", "o", "n">>

\* the codes files in .storage, by MAC address: none, one that cannot be read,
\* one that is no JSON, and the JSON the Broadlink integration stores
CodesFiles ==
    {EmptyDict}
    \cup {Mac :> f : f \in
            { [kind |-> "unreadable"],
              [kind |-> "invalid_json"],
              [kind |-> "json", json |-> [version |-> 1]],
              [kind |-> "json", json |-> [version |-> 1, data |-> EmptyDict]],
              [kind |-> "json", json |-> [version |-> 1, data |-> TempDevice :> EmptyDict]],
              [kind |-> "json",
               json |-> [version |-> 1, data |-> TempDevice :> (TempCommand :> <<>>)]],
              [kind |-> "json",
               json |-> [version |-> 1, data |-> TempDevice :> (TempCommand :> CodeA)]],
              [kind |-> "json",
               json |-> [version |-> 1,
                         data |-> <<"t", "v">> :> (TempCommand :> CodeA)]] }}

InitAdapters ==
    /\ devices = EmptyDict
    /\ persisted = <<>>
    /\ last_sent_command = EmptyDict
    /\ nextUuid = 1
    /\ saveFailures = 0
    /\ last = [op |-> "init", arg |-> <<>>, result |-> "init", saves |-> 0, reloads |-> 0,
               captures |-> 0, extractions |-> 0]
    /\ pc = "idle"
    /\ call \in {[entry |-> entry, files |-> files, device_name |-> TempDevice,
                   command_name |-> command_name, by |-> "registry"] :
                      entry \in RegistryEntries, files \in CodesFiles,
                      command_name \in {TempCommand, Lower(TempCommand) \o <<"e">>}}
    /\ inflight = 0
    /\ trace = <<>>
    /\ light = None
    /\ cover = None
    /\ tasks = <<>>
    /\ coordinators = <<>>

\* str.split(sep)[0]
FirstPart(s, sep) ==
    LET at == {i \in DOMAIN s : s[i] = sep}
    IN  IF at = {} THEN s ELSE SubSeq(s, 1, (CHOOSE i \in at : \A j \in at : i <= j) - 1)

\* str.replace(c, "")
RECURSIVE WithoutChar(_, _)
WithoutChar(s, c) ==
    IF s = <<>> THEN <<>>
    ELSE (IF Head(s) = c THEN <<>> ELSE <<Head(s)>>) \o WithoutChar(Tail(s), c)

HexChars == Digits \cup {"a", "b", "c", "d", "e", "f"}

\* BroadlinkAdapter._get_mac_from_entity: the MAC address, <<>> for None
_get_mac_from_entity(entry) ==
    LET potential_mac ==
            WithoutChar(Lower(FirstPart(entry.unique_id, "_")), ":")
        macs == {WithoutChar(Lower(identifier[2]), ":") :
                    identifier \in {i \in entry.identifiers : i[1] = "broadlink"}}
        found == {mac \in macs : Len(mac) = 12}
    IN  IF ~entry.registered THEN <<>>
        ELSE IF /\ entry.unique_id # <<>>
                /\ Len(potential_mac) = 12
                /\ \A i \in DOMAIN potential_mac : potential_mac[i] \in HexChars
        THEN potential_mac
        ELSE IF found # {} THEN CHOOSE mac \in found : TRUE
        ELSE <<>>

\* BroadlinkAdapter.supports_entity, GenericAdapter.supports_entity
supports_entity(adapter, entry) ==
    IF adapter = "broadlink" THEN entry.registered /\ entry.platform = "broadlink"
    ELSE TRUE

\* what a retrieve_learned_code gives: a code, None, or an exception
Retrieved(code) == [result |-> "code", code |-> code]
Declined == [result |-> "None", code |-> <<>>]
Raised(exception) == [result |-> exception, code |-> <<>>]

\* a variant that lets the errors of reading the file through
BroadlinkAdapter_retrieve_learned_code_uncaught(entry, files, device_name, command_name) ==
    LET mac_address == _get_mac_from_entity(entry)
        file == files[mac_address]
        devs == Get(file.json, "data", EmptyDict)
        device_codes == Get(devs, device_name, EmptyDict)
        code == Get(device_codes, command_name, <<>>)
    IN  IF mac_address = <<>> THEN Declined
        ELSE IF mac_address \notin DOMAIN files THEN Declined
        ELSE IF file.kind = "unreadable" THEN Raised("OSError")
        ELSE IF file.kind = "invalid_json" THEN Raised("JSONDecodeError")
        ELSE IF code # <<>> THEN Retrieved(code)
        ELSE Declined

\* BroadlinkAdapter.retrieve_learned_code, with _read_codes_file
BroadlinkAdapter_retrieve_learned_code(entry, files, device_name, command_name) ==
    LET mac_address == _get_mac_from_entity(entry)
        file == files[mac_address]
        devs == Get(file.json, "data", EmptyDict)
        device_codes == Get(devs, device_name, EmptyDict)
        code == Get(device_codes, command_name, <<>>)
    IN  IF mac_address = <<>> THEN Declined
        ELSE IF mac_address \notin DOMAIN files THEN Declined
        ELSE IF file.kind \in {"unreadable", "invalid_json"} THEN Declined
        ELSE IF code # <<>> THEN Retrieved(code)
        ELSE Declined

\* GenericAdapter.retrieve_learned_code
GenericAdapter_retrieve_learned_code == Declined

\* AdapterRegistry._adapters: the vendor adapters in their order
Adapters == <<"broadlink">>

\* the vendor adapters that get_adapter asks supports_entity, in order
Asked(entry) ==
    LET supporting == {i \in DOMAIN Adapters : supports_entity(Adapters[i], entry)}
    IN  IF supporting = {} THEN Adapters
        ELSE SubSeq(Adapters, 1, CHOOSE i \in supporting : \A j \in supporting : i <= j)

\* AdapterRegistry.get_adapter
get_adapter(entry) ==
    LET asked == Asked(entry)
    IN  IF asked # <<>> /\ supports_entity(asked[Len(asked)], entry) THEN asked[Len(asked)]
        ELSE "generic"

\* AdapterRegistry.retrieve_learned_code
AdapterRegistry_retrieve_learned_code(entry, files, device_name, command_name) ==
    IF get_adapter(entry) = "broadlink"
    THEN BroadlinkAdapter_retrieve_learned_code(entry, files, device_name, command_name)
    ELSE GenericAdapter_retrieve_learned_code

\* one call of AdapterRegistry.retrieve_learned_code
RetrieveLearnedCode ==
    LET r == AdapterRegistry_retrieve_learned_code(call.entry, call.files, call.device_name,
                                                   call.command_name)
    IN  /\ call.by = "registry"
        /\ last' = [op |-> "retrieve_learned_code", arg |-> r.code, result |-> r.result,
                    saves |-> 0, reloads |-> 0, captures |-> 0, extractions |-> 1]
        /\ trace' = [i \in DOMAIN Asked(call.entry) |->
                         Event("supports_entity", Asked(call.entry)[i])]
                    \o <<Event("retrieve_learned_code", get_adapter(call.entry))>>
        /\ UNCHANGED <<devices, persisted, last_sent_command, nextUuid, saveFailures, pc, call,
                       inflight, light, cover, tasks, coordinators>>

AdaptersNext == RetrieveLearnedCode

SpecAdapters == InitAdapters /\ [][AdaptersNext]_vars

(***************************************************************************)
(* Properties of the store.                                                *)
(***************************************************************************)
Errors == {"Duplicate", "NotFound", "InvalidEncoding", "CaptureFailed", "PersistenceFailed"}

\* C1: no two devices of the store have names that are equal ignoring case, and
\* async_add_device with a name that equals an existing device's name ignoring
\* case ends with Duplicate and leaves the store as it was.
C1_DeviceNamesUnique ==
    /\ [](\A a, b \in DOMAIN devices :
              a # b => Lower(devices[a].name) # Lower(devices[b].name))
    /\ [][last'.op = "add_device" =>
              \A name \in DeviceNames :
                  (/\ \E d \in DOMAIN devices : Lower(devices[d].name) = Lower(name)
                   /\ async_add_device(name, Blaster))
                  => /\ last'.result = "Duplicate"
                     /\ devices' = devices
                     /\ persisted' = persisted]_vars

C1_Witness ==
    /\ last.op = "add_device"
    /\ last.result = "Duplicate"
    /\ \E d \in DOMAIN devices :
           devices[d].name # last.arg /\ Lower(devices[d].name) = Lower(last.arg)

\* C2: for every device and every key k of its commands, k is the lowercased
\* name of the command stored under k.
C2_KeysAreLoweredNames ==
    \A d \in DOMAIN devices : \A k \in DOMAIN devices[d].commands :
        k = Lower(devices[d].commands[k].name)

\* the codes the calls give, with and without a leading b64:
CallCodes ==
    {r.code : r \in AddCommandCalls}
        \cup {SubSeq(r.code, Len(B64Prefix) + 1, Len(r.code)) : r \in AddCommandCalls}

\* C3: a successful async_add_command(device, name, c) or
\* async_add_command(device, name, "b64:" + c), c valid base64, leaves
\* device.commands[name.lower()].code equal to c.
C3_CodeRoundTrip ==
    [][(last'.op = "add_command" /\ last'.result = "ok") =>
          \A r \in AddCommandCalls, c \in CallCodes :
              (/\ r.code = c \/ r.code = B64Prefix \o c
               /\ IsValidBase64(c))
              => \A d \in DeviceIds :
                     async_add_command(d, r)
                     => /\ d \in DOMAIN devices'
                        /\ Lower(r.name) \in DOMAIN devices'[d].commands
                        /\ devices'[d].commands[Lower(r.name)].code = c]_vars

C3_Witness ==
    /\ last.op = "add_command"
    /\ last.result = "ok"
    /\ last.arg.code = B64Prefix \o CodeA
    /\ \E d \in DOMAIN devices :
           /\ Lower(last.arg.name) \in DOMAIN devices[d].commands
           /\ devices[d].commands[Lower(last.arg.name)].code = CodeA

\* the codes of the calls that are not base64 once a leading b64: is removed
MalformedCodes == {CodeBadPadding, B64Prefix \o (B64Prefix \o CodeABC)}

\* C4: async_add_command for an absent device, for a name that exists on the
\* device ignoring case, or with a malformed code, ends with that error and
\* changes neither the devices in memory nor the stored data, and issues no save
\* and no reload.
C4_AddCommandFailsBeforeMutation ==
    [][last'.op = "add_command" =>
          \A d \in DeviceIds :
              (/\ \/ d \notin DOMAIN devices
                  \/ \E k \in DOMAIN devices[d].commands : k = Lower(last'.arg.name)
                  \/ last'.arg.code \in MalformedCodes
               /\ async_add_command(d, last'.arg))
              => /\ last'.result =
                        IF d \notin DOMAIN devices THEN "NotFound"
                        ELSE IF \E k \in DOMAIN devices[d].commands :
                                    k = Lower(last'.arg.name)
                             THEN "Duplicate" ELSE "InvalidEncoding"
                 /\ devices' = devices
                 /\ persisted' = persisted
                 /\ last'.saves = 0
                 /\ last'.reloads = 0]_vars

C4_Witness ==
    /\ last.op = "add_command"
    /\ last.result = "InvalidEncoding"
    /\ last.arg.code \in MalformedCodes
    /\ devices # EmptyDict

\* the stored data is the serialization of `devs`, at version 2
IsSnapshotOf(store, devs) ==
    /\ store # <<>>
    /\ store[1].version = 2
    /\ DOMAIN store[1].virtual_devices = DOMAIN devs
    /\ \A id \in DOMAIN devs : store[1].virtual_devices[id] = VirtualDevice_to_dict(devs[id])

\* C5, as claimed: every operation either succeeds, with the store persisted, or
\* leaves the devices in memory as they were, also when the write fails.
C5_AllOrNothingInMemory ==
    [][\/ last'.result \notin Errors /\ IsSnapshotOf(persisted', devices')
       \/ devices' = devices]_vars

\* C5, amended: every operation either succeeds, with the store persisted, or
\* leaves the stored data as it was; it then leaves the devices in memory as they
\* were too, unless it is the write that failed.
C5_AllOrNothingPersisted ==
    [][\/ /\ last'.result \notin Errors
          /\ last'.saves >= 1
          /\ IsSnapshotOf(persisted', devices')
       \/ /\ persisted' = persisted
          /\ last'.result # "PersistenceFailed" => devices' = devices]_vars

C5_Witness ==
    /\ last.result = "PersistenceFailed"
    /\ last.op = "update_device_type"
    /\ ~IsSnapshotOf(persisted, devices)

\* C6: when the write fails, the operation ends with the failure (no reload
\* follows), the stored data is as before, and the mutation made in memory
\* before the write is in place.
C6_WriteFailureKeepsMutation ==
    [][saveFailures' # saveFailures =>
          /\ last'.result = "PersistenceFailed"
          /\ last'.reloads = 0
          /\ persisted' = persisted
          /\ \A name \in DeviceNames :
                 async_add_device(name, Blaster) =>
                     \E id \in DOMAIN devices' \ DOMAIN devices : devices'[id].name = name
          /\ \A d \in DeviceIds :
                 async_remove_device(d) => d \in DOMAIN devices \ DOMAIN devices'
          /\ \A d \in DeviceIds, r \in AddCommandCalls :
                 async_add_command(d, r) =>
                     /\ Lower(r.name) \notin DOMAIN devices[d].commands
                     /\ Lower(r.name) \in DOMAIN devices'[d].commands
          /\ \A d \in DeviceIds, n \in CommandNames :
                 async_delete_command(d, n) =>
                     /\ Lower(n) \in DOMAIN devices[d].commands
                     /\ Lower(n) \notin DOMAIN devices'[d].commands
          /\ \A d \in DeviceIds, n \in CommandNames, u \in UpdateCalls :
                 async_update_command(d, n, u) =>
                     \A f \in DOMAIN u \cap IRCommandFields :
                         devices'[d].commands[Lower(n)][f] = u[f]]_vars

C6_Witness ==
    /\ last.result = "PersistenceFailed"
    /\ last.op = "add_command"
    /\ persisted # <<>>
    /\ \E d \in DOMAIN devices :
           /\ Lower(last.arg.name) \in DOMAIN devices[d].commands
           /\ Lower(last.arg.name) \notin DOMAIN persisted[1].virtual_devices[d].commands

\* the last operation changed the store and returned
MutationReturned ==
    \/ last.result \in {"ok", "True"}
    \/ last.op = "save_entity_state" /\ last.result = "None" /\ last.saves = 1

\* C7: after every mutating operation that returns successfully the stored data
\* is the serialization of all the devices in memory, at version 2.
C7_PersistedAfterEveryMutation ==
    MutationReturned => IsSnapshotOf(persisted, devices)

C7_Witness ==
    /\ last.op = "save_entity_state"
    /\ last.saves = 1
    /\ last.result = "None"
    /\ saveFailures >= 1
    /\ IsSnapshotOf(persisted, devices)

(***************************************************************************)
(* Properties of sending.                                                  *)
(***************************************************************************)
RECURSIVE Repeat(_, _)
Repeat(x, n) == IF n = 0 THEN <<>> ELSE <<x>> \o Repeat(x, n - 1)

\* the codes of the blaster invocations of a trace, in order
RECURSIVE SentCodes(_)
SentCodes(t) ==
    IF t = <<>> THEN <<>>
    ELSE (IF Head(t).ev = "send" THEN <<Head(t).what>> ELSE <<>>) \o SentCodes(Tail(t))

\* what the blaster is to receive for a command the device has
Transport(name) == B64Prefix \o SendStore[SendDevice].commands[Lower(name)].code

Known(name) == \E k \in DOMAIN SendStore[SendDevice].commands : k = Lower(name)

\* the invocations a dispatch of `names` is to issue: those of its known names
RECURSIVE ExpectedCodes(_, _)
ExpectedCodes(names, num_repeats) ==
    IF names = <<>> THEN <<>>
    ELSE (IF Known(Head(names)) THEN Repeat(Transport(Head(names)), num_repeats) ELSE <<>>)
             \o ExpectedCodes(Tail(names), num_repeats)

IsPrefix(a, b) == Len(a) <= Len(b) /\ SubSeq(b, 1, Len(a)) = a

DispatchReturned == pc = "idle" /\ last.op = "dispatch" /\ last.result = "ok"

\* C8: in a dispatch that has returned, every delay lies between two sends: a
\* send precedes it and a send follows it.
C8_DelayOnlyBetweenSends ==
    DispatchReturned =>
        \A k \in DOMAIN trace :
            trace[k].ev = "sleep" =>
                /\ \E j \in 1..(k - 1) : trace[j].ev = "send"
                /\ \E j \in (k + 1)..Len(trace) : trace[j].ev = "send"

\* C9: the invocations of a dispatch are those of its known names, in the order of
\* the list, each issued after the one before has completed.
C9_SendsInOrderOneAtATime ==
    /\ inflight <= 1
    /\ call.by = "remote" =>
           IsPrefix(SentCodes(trace), ExpectedCodes(call.names, call.num_repeats))
    /\ DispatchReturned =>
           SentCodes(trace) = ExpectedCodes(call.names, call.num_repeats)

C9_Witness ==
    /\ DispatchReturned
    /\ call.names = << <<"O", "N">>, <<"x">>, <<"u", "p">> >>
    /\ call.num_repeats = 2
    /\ Len(SentCodes(trace)) = 4

ServiceSendReturned ==
    pc = "idle" /\ call.by = "service" /\ last.op = "send_command" /\ last.result = "ok"

\* C10: a send of `name` with K repeats that returns has issued K invocations of
\* "b64:" + the stored code, and then has set the device's marker to `name`, once.
C10_RepeatsThenOneMark ==
    ServiceSendReturned =>
        /\ trace = Repeat(Event("send", Transport(call.names[1])), call.num_repeats)
                       \o <<Event("mark", call.names[1])>>
        /\ inflight = 0
        /\ call.device_id \in DOMAIN last_sent_command
        /\ last_sent_command[call.device_id] = call.names[1]

C10_Witness ==
    /\ ServiceSendReturned
    /\ call.names = << <<"O", "N">> >>
    /\ call.num_repeats = 2
    /\ Len(trace) = 3

\* the running send is for a device the store lacks, or for a name that is no
\* key of the device's commands once lowercased
SendTargetAbsent ==
    \/ call.device_id \notin DOMAIN devices
    \/ ~\E k \in DOMAIN devices[call.device_id].commands : k = Lower(call.names[call.i])

\* C11: a send for an absent device, or for a name the device lacks ignoring
\* case, ends with NotFound at the lookup: the blaster has not been invoked, and
\* the marker and the store are as they were.
C11_SendNotFoundChangesNothing ==
    [][(pc = "send" /\ SendTargetAbsent) =>
          /\ pc' = "idle"
          /\ last'.op = "send_command"
          /\ last'.result = "NotFound"
          /\ SentCodes(trace') = <<>>
          /\ inflight' = 0
          /\ last_sent_command' = last_sent_command
          /\ devices' = devices
          /\ persisted' = persisted]_vars

C11_Witness ==
    /\ pc = "idle"
    /\ last.op = "send_command"
    /\ last.result = "NotFound"
    /\ call.device_id = SendDevice
    /\ call.names = << <<"x">> >>
    /\ SendDevice \in DOMAIN last_sent_command
    /\ trace = <<>>

(***************************************************************************)
(* Properties of learning.                                                 *)
(***************************************************************************)
\* the name is a key of the device's commands once lowercased
NameTaken(d, name) ==
    \E k \in DOMAIN devices[d].commands : k = Lower(name)

\* C12: a learn attempt for a name the device has ignoring case ends with
\* Duplicate, with no capture started and no extraction attempted, and leaves the
\* devices in memory and the stored data as they were.
C12_LearnDuplicateBeforeCapture ==
    [][last'.op = "learn_command" =>
          \A d \in DOMAIN devices, r \in LearnAttemptCalls, captured \in BOOLEAN :
              (/\ NameTaken(d, r.name)
               /\ async_learn_command(d, r, captured, last'.arg.retrieved))
              => /\ last'.result = "Duplicate"
                 /\ last'.captures = 0
                 /\ last'.extractions = 0
                 /\ last'.saves = 0
                 /\ devices' = devices
                 /\ persisted' = persisted]_vars

C12_Witness ==
    /\ last.op = "learn_command"
    /\ last.result = "Duplicate"
    /\ last.arg.name = <<"O", "N">>
    /\ last.arg.retrieved = <<CodeA>>
    /\ \E d \in DOMAIN devices : <<"o", "n">> \in DOMAIN devices[d].commands

\* C13: a learn attempt starts at most one capture and attempts an extraction
\* only after a capture that succeeded; when the capture fails the attempt ends
\* with CaptureFailed after that one capture, with no extraction, and leaves the
\* devices in memory and the stored data as they were.
C13_CaptureOnceNoRetry ==
    [][last'.op = "learn_command" =>
          /\ last'.captures <= 1
          /\ last'.extractions <= last'.captures
          /\ last'.extractions = 1 => last'.result # "CaptureFailed"
          /\ \A d \in DOMAIN devices, r \in LearnAttemptCalls :
                 (/\ ~NameTaken(d, r.name)
                  /\ async_learn_command(d, r, FALSE, last'.arg.retrieved))
                 => /\ last'.result = "CaptureFailed"
                    /\ last'.captures = 1
                    /\ last'.extractions = 0
                    /\ last'.saves = 0
                    /\ devices' = devices
                    /\ persisted' = persisted]_vars

C13_Witness ==
    /\ last.op = "learn_command"
    /\ last.result = "CaptureFailed"
    /\ last.captures = 1
    /\ last.extractions = 0
    /\ last.arg.retrieved = <<CodeA>>
    /\ devices # EmptyDict

\* C14: a learn attempt whose capture succeeds and whose extraction finds
\* nothing returns the "manual entry required" result, not an error: the devices
\* in memory and the stored data are as they were, no command id is drawn and
\* nothing is saved.
C14_NothingRetrievedReturnsNone ==
    [][(last'.op = "learn_command" /\ last'.arg.retrieved \in {<<>>, << <<>> >>}) =>
          \A d \in DOMAIN devices, r \in LearnAttemptCalls :
              (/\ ~NameTaken(d, r.name)
               /\ async_learn_command(d, r, TRUE, last'.arg.retrieved))
              => /\ last'.result = "ManualEntryRequired"
                 /\ last'.result \notin Errors
                 /\ last'.captures = 1
                 /\ last'.extractions = 1
                 /\ last'.saves = 0
                 /\ last'.reloads = 0
                 /\ nextUuid' = nextUuid
                 /\ devices' = devices
                 /\ persisted' = persisted]_vars

C14_Witness ==
    /\ last.op = "learn_command"
    /\ last.result = "ManualEntryRequired"
    /\ last.arg.retrieved = <<>>
    /\ last.extractions = 1
    /\ persisted # <<>>
    /\ \E d \in DOMAIN devices : devices[d].commands = EmptyDict

\* the command the manual path async_add_command(d, name, code, command_type)
\* stores in this state
ManualCommand(d, name, code, command_type) ==
    storage_add_command(devices, d,
        IRCommand(nextUuid, name, StripPrefix(code), command_type, IconOrNone(None))
    )[d].commands[Lower(name)]

\* C15: a learn attempt whose extraction finds the code c ends as the manual
\* entry of c does: for a c that is base64 once a leading b64: is removed, the
\* device has under the lowercased name a command equal to the manual one in
\* name, code, command type and icon, and the stored data is the serialization
\* of the devices when the attempt returns; for any other c it ends with
\* InvalidEncoding and the store is as it was.
C15_LearnStoresAsManualEntry ==
    [][(last'.op = "learn_command" /\ last'.extractions = 1
            /\ last'.arg.retrieved \notin {<<>>, << <<>> >>}) =>
          \A d \in DOMAIN devices, r \in LearnAttemptCalls :
              (/\ ~NameTaken(d, r.name)
               /\ async_learn_command(d, r, TRUE, last'.arg.retrieved))
              => LET code == last'.arg.retrieved[1]
                 IN  IF IsValidBase64(StripPrefix(code))
                     THEN /\ last'.result \in {"ok", "PersistenceFailed"}
                          /\ d \in DOMAIN devices'
                          /\ DOMAIN devices'[d].commands =
                                 DOMAIN devices[d].commands \cup {Lower(r.name)}
                          /\ \A f \in {"name", "code", "command_type", "icon"} :
                                 devices'[d].commands[Lower(r.name)][f] =
                                     ManualCommand(d, r.name, code, r.command_type)[f]
                          /\ last'.result = "ok" => IsSnapshotOf(persisted', devices')
                          /\ last'.saves = 1
                     ELSE /\ last'.result = "InvalidEncoding"
                          /\ devices' = devices
                          /\ persisted' = persisted
                          /\ last'.saves = 0]_vars

C15_Witness ==
    /\ last.op = "learn_command"
    /\ last.result = "ok"
    /\ last.arg.retrieved = <<B64Prefix \o CodeABC>>
    /\ IsSnapshotOf(persisted, devices)
    /\ \E d \in DOMAIN devices :
           /\ <<"o", "n">> \in DOMAIN devices[d].commands
           /\ devices[d].commands[<<"o", "n">>].name = <<"O", "N">>
           /\ devices[d].commands[<<"o", "n">>].code = CodeABC
           /\ devices[d].commands[<<"o", "n">>].command_type = "rf"

(***************************************************************************)
(* Properties of loading.                                                  *)
(***************************************************************************)
\* the device records of stored data
StoredDevices(data) == Get(data, "virtual_devices", EmptyDict)

\* the data has been migrated: version 2, every record with both fields
AlreadyMigrated(data) ==
    /\ Get(data, "version", 1) = 2
    /\ \A id \in DOMAIN StoredDevices(data) :
           {"device_type", "entity_configs"} \subseteq DOMAIN StoredDevices(data)[id]

\* C16: on any stored data (whose records are JSON objects) the migration gives
\* data that it maps to itself, and that is the data itself when it has been
\* migrated already; it keeps the devices, keeps every field a record has with
\* its value (device_type and entity_configs included) and adds to a record only
\* the two fields, with their defaults.
C16_MigrationIdempotentAdditive ==
    (persisted # <<>> /\ ~LoadRaises(persisted)) =>
        LET data == persisted[1]
            m == _migrate_v1_to_v2(data)
            before == StoredDevices(data)
            after == StoredDevices(m)
        IN  /\ _migrate_v1_to_v2(m) = m
            /\ AlreadyMigrated(data) => m = data
            /\ m["version"] = 2
            /\ DOMAIN m = DOMAIN data \cup {"version"}
            /\ DOMAIN after = DOMAIN before
            /\ \A id \in DOMAIN before :
                   /\ DOMAIN after[id] = DOMAIN before[id] \cup {"device_type", "entity_configs"}
                   /\ \A f \in DOMAIN before[id] : after[id][f] = before[id][f]
                   /\ "device_type" \notin DOMAIN before[id]
                          => after[id]["device_type"] = DEVICE_TYPE_GENERIC
                   /\ "entity_configs" \notin DOMAIN before[id]
                          => after[id]["entity_configs"] = EmptyDict

C16_Witness ==
    /\ last.op = "load"
    /\ last.result = "ok"
    /\ last.arg.migrations = 1
    /\ \E id \in DOMAIN StoredDevices(persisted[1]) :
           /\ {"name", "device_type", "entity_configs"}
                  \subseteq DOMAIN StoredDevices(persisted[1])[id]
           /\ StoredDevices(persisted[1])[id]["device_type"] = DEVICE_TYPE_LIGHT
           /\ StoredDevices(persisted[1])[id]["entity_configs"] = EmptyDict

\* C17: a load of stored data whose version is below 2 or missing, when it
\* returns, has run the migration once and written the migrated data once, and
\* the devices are those of the migrated data; a load of data at version 2, or of
\* no data, runs no migration and writes nothing; and once the entry is set up
\* the stored data is at version 2.
C17_MigratesAndSavesOnce ==
    /\ [](Loaded /\ persisted # <<>> => ~NeedsMigration(persisted))
    /\ [][last'.op = "load" =>
              IF NeedsMigration(persisted)
              THEN /\ last'.arg.migrations = 1
                   /\ last'.result = "ok" =>
                          /\ last'.saves = 1
                          /\ persisted' = <<_migrate_v1_to_v2(persisted[1])>>
                          /\ ~NeedsMigration(persisted')
                          /\ \A id \in DOMAIN devices' :
                                 /\ id \in DOMAIN StoredDevices(persisted'[1])
                                 /\ devices'[id].device_type =
                                        StoredDevices(persisted'[1])[id]["device_type"]
                   /\ last'.result # "ok" => persisted' = persisted /\ devices' = EmptyDict
              ELSE /\ last'.arg.migrations = 0
                   /\ last'.saves = 0
                   /\ persisted' = persisted]_vars

C17_Witness ==
    /\ last.op = "load"
    /\ last.result = "ok"
    /\ last.arg.migrations = 0
    /\ last.saves = 0
    /\ persisted # <<>>
    /\ \E id \in DOMAIN StoredDevices(persisted[1]) :
           /\ "name" \notin DOMAIN StoredDevices(persisted[1])[id]
           /\ "device_type" \in DOMAIN StoredDevices(persisted[1])[id]
           /\ StoredDevices(persisted[1])[id]["device_type"] = DEVICE_TYPE_GENERIC

\* the record has the fields from_dict requires, and so has each of its commands
Intact(record) ==
    /\ record # JsonNull
    /\ {"id", "name", "ir_blaster_entity_id"} \subseteq DOMAIN record
    /\ \A k \in DOMAIN Get(record, "commands", EmptyDict) :
           {"id", "name", "code"} \subseteq DOMAIN record["commands"][k]

\* C18: a load never ends because of a bad record: with no stored data the store
\* is empty, and otherwise the devices are those of the intact records, each with
\* its stored name.
C18_CorruptRecordsSkipped ==
    [][last'.op = "load" =>
          /\ last'.result \in {"ok", "PersistenceFailed"}
          /\ persisted = <<>> => devices' = EmptyDict
          /\ (persisted # <<>> /\ last'.result = "ok") =>
                 /\ DOMAIN devices' =
                        {id \in DOMAIN StoredDevices(persisted[1]) :
                            Intact(StoredDevices(persisted[1])[id])}
                 /\ \A id \in DOMAIN devices' :
                        devices'[id].name = StoredDevices(persisted[1])[id]["name"]]_vars

(***************************************************************************)
(* Properties of the entity configuration.                                 *)
(***************************************************************************)
\* C19: async_update_device_type on a device of the store sets its device_type,
\* leaves every entity config the device has as it is, and adds the default
\* config of the new type exactly when the type is not generic and the device
\* has no config for it.
C19_DeviceTypeKeepsEntityConfig ==
    [][last'.op = "update_device_type" =>
          \A d \in DOMAIN devices :
              async_update_device_type(d, last'.arg)
              => LET before == devices[d].entity_configs
                     after == devices'[d].entity_configs
                 IN  /\ devices'[d].device_type = last'.arg
                     /\ \A t \in DOMAIN before : t \in DOMAIN after /\ after[t] = before[t]
                     /\ DOMAIN after =
                            DOMAIN before \cup
                                (IF last'.arg = DEVICE_TYPE_GENERIC THEN {} ELSE {last'.arg})
                     /\ (last'.arg # DEVICE_TYPE_GENERIC /\ last'.arg \notin DOMAIN before)
                            => after[last'.arg] = DefaultEntityConfig(last'.arg)]_vars

C19_Witness ==
    /\ last.op = "update_device_type"
    /\ last.arg = DEVICE_TYPE_LIGHT
    /\ last.result = "True"
    /\ \E d \in DOMAIN devices :
           /\ devices[d].device_type = DEVICE_TYPE_LIGHT
           /\ DEVICE_TYPE_LIGHT \in DOMAIN devices[d].entity_configs
           /\ devices[d].entity_configs[DEVICE_TYPE_LIGHT] = ConfiguredLight

(***************************************************************************)
(* Properties of the light.                                                *)
(***************************************************************************)
\* i is num / den rounded: the nearest integer, the even one of the two nearest
\* when num / den lies halfway between them
IsRounded(i, num, den) ==
    LET twice == 2 * (den * i - num)
        distance == IF twice < 0 THEN 0 - twice ELSE twice
    IN  \/ distance < den
        \/ distance = den /\ i % 2 = 0

\* C20: with brightness by level (mode discrete or both, N >= 1 levels) a call
\* for the target t sends one command, levels[i] (counted from 0), where i is
\* (t - 1) / 254 * (N - 1) rounded and then clamped to 0..N-1; with 5 levels and
\* t = 200 it is the 4th level.
C20_BrightnessLevelIndex ==
    [][last'.op = "set_brightness" =>
          LET config == devices[SendDevice].entity_configs["light"]
              levels == config.command_mappings["brightness_levels"]
              N == Len(levels)
              t == last'.arg
          IN  (/\ Get(config.options, "brightness_mode", "discrete") \in {"discrete", "both"}
               /\ N >= 1)
              => /\ \E j \in 0..N :
                        /\ IsRounded(j, (t - 1) * (N - 1), 254)
                        /\ trace' = <<Event("command", levels[Max(0, Min(j, N - 1)) + 1])>>
                 /\ (N = 5 /\ t = 200) => trace' = <<Event("command", levels[4])>>]_vars

C20_Witness ==
    /\ last.op = "set_brightness"
    /\ last.arg = 200
    /\ last.result = "ok"
    /\ Len(devices[SendDevice].entity_configs["light"].command_mappings["brightness_levels"]) = 5
    /\ trace = <<Event("command", LevelName(4))>>

\* the light's config, and whether it sets brightness by level
TheLightConfig == devices[SendDevice].entity_configs["light"]
BrightnessLevels == Get(TheLightConfig.command_mappings, "brightness_levels", <<>>)
BrightnessByLevel ==
    /\ Get(TheLightConfig.options, "brightness_mode", "discrete") \in {"discrete", "both"}
    /\ Len(BrightnessLevels) >= 1

\* the index (from 0) of a command in a list of level commands
LevelIndexOf(levels, name) == (CHOOSE i \in DOMAIN levels : levels[i] = name) - 1

\* C21: brightness by level is monotonic: with N >= 1 levels, the index of the
\* level sent for a target t1 is at most the index of the level chosen for
\* any greater target t2 <= 255.
C21_BrightnessLevelMonotonic ==
    (last.op = "set_brightness" /\ BrightnessByLevel) =>
        \A t2 \in (last.arg + 1)..255 :
            LevelIndexOf(BrightnessLevels, trace[1].what)
                <= LevelIndexOf(BrightnessLevels,
                                _set_brightness(TheLightConfig, light.brightness, t2)[1])

C21_Witness ==
    /\ last.op = "set_brightness"
    /\ last.arg = 159
    /\ BrightnessByLevel
    /\ Len(BrightnessLevels) = 5
    /\ trace = <<Event("command", LevelName(3))>>
    /\ _set_brightness(TheLightConfig, light.brightness, 160) = <<LevelName(4)>>

\* C22: brightness by level at the boundaries: with N >= 1 levels (one level
\* included) the target 1 sends the first level (index 0), the target 255 the
\* last (index N-1), and every target sends exactly one of the N levels.
C22_BrightnessLevelBoundaries ==
    (last.op = "set_brightness" /\ BrightnessByLevel) =>
        LET N == Len(BrightnessLevels)
        IN  /\ Len(trace) = 1
            /\ trace[1].ev = "command"
            /\ \E i \in 0..(N - 1) : trace[1].what = BrightnessLevels[i + 1]
            /\ last.arg = 1 => trace[1].what = BrightnessLevels[1]
            /\ last.arg = 255 => trace[1].what = BrightnessLevels[N]

C22_Witness ==
    /\ last.op = "set_brightness"
    /\ last.arg = 255
    /\ last.result = "ok"
    /\ BrightnessByLevel
    /\ Len(BrightnessLevels) = 1
    /\ trace = <<Event("command", LevelName(1))>>

\* a relative adjustment from current to target in steps of step_size: the
\* sends are round(|target - current| / step_size) of the up command for a
\* target above, of the down command for one below, none for an equal one;
\* a call that a failed send ended has issued the first of them only
RelativeSends(current, target, step_size, up_cmd, down_cmd) ==
    LET diff == target - current
        distance == IF diff < 0 THEN 0 - diff ELSE diff
        cmd == IF diff > 0 THEN up_cmd ELSE down_cmd
    IN  \E steps \in 0..(distance \div step_size + 1) :
            /\ IsRounded(steps, distance, step_size)
            /\ LET sends == Repeat(Event("command", cmd), IF diff = 0 THEN 0 ELSE steps)
               IN  IF last.result = "ok" THEN trace = sends
                   ELSE trace # <<>> /\ IsPrefix(trace, sends)

\* C23: a relative adjustment with the up and the down command mapped sends
\* round(|target - current| / step_size) times the up command when the target
\* is above the current value, the down command when it is below, nothing
\* when they are equal, and never a command of the other direction; for
\* brightness in relative mode (step_size from the options, 25 by default) and
\* for colour temperature without presets (500 K a step).
C23_RelativeSteps ==
    LET mappings == TheLightConfig.command_mappings
        options == TheLightConfig.options
    IN  /\ (/\ last.op = "set_brightness"
            /\ Get(options, "brightness_mode", "discrete") = "relative"
            /\ {"brightness_up", "brightness_down"} \subseteq DOMAIN mappings)
           => RelativeSends(light.brightness, last.arg,
                            Get(options, "brightness_step_size", 25),
                            mappings["brightness_up"], mappings["brightness_down"])
        /\ (/\ last.op = "set_color_temp"
            /\ "color_temp_levels" \notin DOMAIN mappings
            /\ {"color_temp_up", "color_temp_down"} \subseteq DOMAIN mappings)
           => RelativeSends(_index_to_kelvin(TheLightConfig, light.color_temp_index),
                            last.arg, 500,
                            mappings["color_temp_up"], mappings["color_temp_down"])

\* 153 is 2.5 steps of 10 above 128: two sends of the up command
C23_Witness ==
    /\ last.op = "set_brightness"
    /\ last.result = "ok"
    /\ Get(TheLightConfig.options, "brightness_mode", "discrete") = "relative"
    /\ light.brightness = 128
    /\ last.arg = 153
    /\ trace = <<Event("command", BrightnessUp), Event("command", BrightnessUp)>>

\* C24: with the mode "both" a non-empty list of level commands is preferred:
\* one level command is sent and no up or down command; without such a list
\* the adjustment falls back to relative stepping with the up and the down
\* command. For brightness_mode and brightness, color_temp_mode and colour
\* temperature alike.
C24_BothPrefersLevelsElseRelative ==
    LET mappings == TheLightConfig.command_mappings
        options == TheLightConfig.options
        brightness_levels == Get(mappings, "brightness_levels", <<>>)
        color_temp_levels == Get(mappings, "color_temp_levels", <<>>)
    IN  /\ (last.op = "set_brightness" /\ Get(options, "brightness_mode", None) = "both")
           => IF brightness_levels # <<>>
              THEN \E i \in DOMAIN brightness_levels :
                       trace = <<Event("command", brightness_levels[i])>>
              ELSE {"brightness_up", "brightness_down"} \subseteq DOMAIN mappings
                   => RelativeSends(light.brightness, last.arg,
                                    Get(options, "brightness_step_size", 25),
                                    mappings["brightness_up"], mappings["brightness_down"])
        /\ (last.op = "set_color_temp" /\ Get(options, "color_temp_mode", None) = "both")
           => IF color_temp_levels # <<>>
              THEN \E i \in DOMAIN color_temp_levels :
                       trace = <<Event("command", color_temp_levels[i])>>
              ELSE {"color_temp_up", "color_temp_down"} \subseteq DOMAIN mappings
                   => RelativeSends(_index_to_kelvin(TheLightConfig, light.color_temp_index),
                                    last.arg, 500,
                                    mappings["color_temp_up"], mappings["color_temp_down"])

\* C26: the light reports brightness as supported exactly when
\* brightness_mode is not "none" and brightness_levels is non-empty or
\* brightness_up is mapped, and a brightness_mode option that is not set is
\* taken for the same mode by this check and by the translation of a
\* brightness request: for "none" nothing is sent, for "discrete" and "both"
\* with levels one level command.
C26_BrightnessCapability ==
    LET mappings == TheLightConfig.command_mappings
        levels == Get(mappings, "brightness_levels", <<>>)
    IN  last.op = "set_brightness" =>
            \E unset \in {"none", "discrete", "relative", "both"} :
                LET brightness_mode == Get(TheLightConfig.options, "brightness_mode", unset)
                IN  /\ "brightness" \in light.supported_color_modes
                        <=> /\ brightness_mode # "none"
                            /\ levels # <<>> \/ "brightness_up" \in DOMAIN mappings
                    /\ brightness_mode = "none" => trace = <<>>
                    /\ (brightness_mode \in {"discrete", "both"} /\ levels # <<>>)
                       => \E i \in DOMAIN levels : trace = <<Event("command", levels[i])>>

\* C27: with N >= 1 colour temperature presets a call for a target t in
\* 2000..6500 K sends the preset of index (6500 - t) / 4500 * (N - 1) rounded
\* and clamped to 0..N-1: 6500 K is index 0, 2000 K is index N-1, and the next
\* higher target (so every higher target) never has a higher index; once the
\* preset is sent the index is the light's assumed color_temp_index.
C27_ColorTempPresetIndex ==
    LET presets == Get(TheLightConfig.command_mappings, "color_temp_levels", <<>>)
        N == Len(presets)
        t == last.arg
    IN  (last.op = "set_color_temp" /\ N >= 1) =>
            \E j \in 0..N :
                LET i == Max(0, Min(j, N - 1))
                IN  /\ IsRounded(j, (6500 - t) * (N - 1), 4500)
                    /\ trace = <<Event("command", presets[i + 1])>>
                    /\ last.result = "ok" => light.color_temp_index = i
                    /\ t = 6500 => i = 0
                    /\ t = 2000 => i = N - 1
                    /\ t < 6500 =>
                           LevelIndexOf(presets,
                               _set_color_temp_kelvin(TheLightConfig, light.color_temp_index,
                                                      t + 1).cmds[1]) <= i

C27_Witness ==
    /\ last.op = "set_color_temp"
    /\ last.arg = 2700
    /\ last.result = "ok"
    /\ Len(Get(TheLightConfig.command_mappings, "color_temp_levels", <<>>)) = 5
    /\ trace = <<Event("command", PresetName(4))>>
    /\ light.color_temp_index = 3

\* C28: a command in the store is never changed in place but for its icon:
\* while it is stored (under its key, with its id) its code, name, id and
\* every other field stay as they are, and it leaves the store only when the
\* command or its device is deleted.
C28_CommandChangesOnlyIcon ==
    [][\A d \in DOMAIN devices : \A k \in DOMAIN devices[d].commands :
           LET command == devices[d].commands[k]
           IN  IF d \in DOMAIN devices' /\ k \in DOMAIN devices'[d].commands
               THEN [devices'[d].commands[k] EXCEPT !.icon = command.icon] = command
               ELSE last'.op \in {"delete_command", "remove_device"}]_vars

Commands(names) == [i \in DOMAIN names |-> Event("command", names[i])]

\* C25: a turn-on request for a light that is assumed off first sends the
\* command mapped to turn_on, or the one mapped to toggle when turn_on is not
\* mapped, before any command of a brightness, colour temperature or effect
\* adjustment of the request; an adjustment that has no mapping sends nothing,
\* and the adjustments after it are still made.
C25_PowerOnBeforeAdjustments ==
    [][last'.op = "turn_on" =>
          LET mappings == TheLightConfig.command_mappings
              kwargs == last'.arg
              power == IF "turn_on" \in DOMAIN mappings THEN <<mappings["turn_on"]>>
                       ELSE IF "toggle" \in DOMAIN mappings THEN <<mappings["toggle"]>>
                       ELSE <<>>
              brightness ==
                  IF /\ "brightness" \in DOMAIN kwargs
                     /\ {"brightness_levels", "brightness_up"} \cap DOMAIN mappings # {}
                  THEN _set_brightness(TheLightConfig, light.brightness, kwargs["brightness"])
                  ELSE <<>>
              color_temp ==
                  IF /\ "color_temp" \in DOMAIN kwargs
                     /\ {"color_temp_levels", "color_temp_up"} \cap DOMAIN mappings # {}
                  THEN _set_color_temp_kelvin(TheLightConfig, light.color_temp_index,
                                              kwargs["color_temp"]).cmds
                  ELSE <<>>
              effect ==
                  IF /\ "effect" \in DOMAIN kwargs
                     /\ "effects" \in DOMAIN mappings
                     /\ kwargs["effect"] \in DOMAIN mappings["effects"]
                  THEN <<mappings["effects"][kwargs["effect"]]>>
                  ELSE <<>>
              adjustments == brightness \o color_temp \o effect
          IN  /\ (~light.is_on /\ power # <<>>)
                 => /\ trace' # <<>>
                    /\ trace'[1] = Event("command", power[1])
                    /\ IsPrefix(Tail(trace'), Commands(adjustments))
              /\ (~light.is_on /\ last'.result \in {"ok", "PersistenceFailed"})
                 => trace' = Commands(power \o adjustments)]_vars

\* a light that was off, with toggle and the Nightlight effect mapped and no
\* brightness mapping, is turned on with a brightness and the effect
C25_Witness ==
    /\ last.op = "turn_on"
    /\ last.result = "ok"
    /\ last.arg = [brightness |-> 200, effect |-> "Nightlight"]
    /\ DOMAIN TheLightConfig.command_mappings = {"toggle", "effects"}
    /\ trace = <<Event("command", ToggleName), Event("command", NightlightName)>>
    /\ light.is_on

(***************************************************************************)
(* C30: async_delete_command(device, name) removes exactly the command     *)
(* stored under name.lower() and leaves every other command, every other   *)
(* device and the device's other fields (its entity_configs among them)    *)
(* as they were; when the device or the command is absent it returns       *)
(* False, changes neither the devices nor the stored data, and issues no   *)
(* save and no reload.                                                     *)
(***************************************************************************)
DeleteEffect(d, n) ==
    IF d \in DOMAIN devices /\ Lower(n) \in DOMAIN devices[d].commands
    THEN /\ last'.result # "False"
         /\ DOMAIN devices' = DOMAIN devices
         /\ \A e \in DOMAIN devices \ {d} : devices'[e] = devices[e]
         /\ DOMAIN devices'[d].commands = DOMAIN devices[d].commands \ {Lower(n)}
         /\ \A k \in DOMAIN devices'[d].commands :
                devices'[d].commands[k] = devices[d].commands[k]
         /\ [devices'[d] EXCEPT !.commands = devices[d].commands] = devices[d]
    ELSE /\ last'.result = "False"
         /\ devices' = devices
         /\ persisted' = persisted
         /\ last'.saves = 0
         /\ last'.reloads = 0

C30_DeleteCommandFrame ==
    [][\A d \in DeviceIds, n \in DeleteNames :
          async_delete_command(d, n) => DeleteEffect(d, n)]_vars

\* "ON" has been deleted from the light: "up", the light config and the other
\* device with its own "on" are still there
C30_Witness ==
    /\ last.op = "delete_command" /\ last.arg = <<"O", "N">> /\ last.result = "True"
    /\ last.reloads = 1
    /\ DOMAIN devices = {DeleteLight, DeleteOther}
    /\ DOMAIN devices[DeleteLight].commands = {<<"u", "p">>}
    /\ devices[DeleteLight].commands[<<"u", "p">>] = DeleteStore[DeleteLight].commands[<<"u", "p">>]
    /\ devices[DeleteLight].entity_configs = DeleteStore[DeleteLight].entity_configs
    /\ devices[DeleteOther] = DeleteStore[DeleteOther]

(***************************************************************************)
(* C31: saving the store and loading what was saved gives a store equal to *)
(* the one saved: the same device ids, and for each device the same name,  *)
(* blaster, type, commands (key, id, name, code, type, learned_at, icon)   *)
(* and entity configs, with every key of state and options, those the code *)
(* does not know included.  Stated of every store the storage holds and of *)
(* every set-up over a store that was saved.                               *)
(***************************************************************************)
SavedStoreLoadsEqual == async_load(<<async_save(devices)>>) = devices

SetupOverSavedStore ==
    last'.op = "load" /\ persisted = <<async_save(devices)>>
        => last'.result = "ok" /\ devices' = devices /\ persisted' = persisted

C31_SaveLoadRoundTrip == []SavedStoreLoadsEqual /\ [][SetupOverSavedStore]_vars

\* the entry has been set up over a saved store of two devices, the first a
\* disabled light with two commands whose state and options have unknown keys
C31_Witness ==
    /\ last.op = "load" /\ last.result = "ok"
    /\ DOMAIN devices = {1, 2}
    /\ DOMAIN devices[1].commands = {<<"o", "n">>, <<"u", "p">>}
    /\ devices[1].commands[<<"o", "n">>].icon = "mdi:power"
    /\ "light" \in DOMAIN devices[1].entity_configs
    /\ LET config == Get(devices[1].entity_configs, "light", ConfiguredLight)
       IN  /\ ~config.enabled
           /\ Get(config.state, "transition", 0) = 2
           /\ Get(config.options, "min_kelvin", 0) = 2700
    /\ persisted = <<async_save(devices)>>

(***************************************************************************)
(* C32: when the concurrent calls are learn and add calls on one device    *)
(* whose names are equal ignoring case, then under every interleaving at   *)
(* the capture, the extraction, the write and the reload at most one of    *)
(* them creates the command, every other one that comes to store a command *)
(* (an add, or a learn whose capture returned and whose code was           *)
(* retrieved) ends with the Duplicate error, and no step replaces a        *)
(* command that a coordinator or the stored data already has.              *)
(***************************************************************************)
OnlyCreators ==
    \A t \in DOMAIN tasks :
        /\ tasks[t].op \in {"learn_command", "add_command"}
        /\ tasks[t].device_id = RaceDevice
        /\ Lower(tasks[t].name) = <<"o", "n">>

Creators == {t \in DOMAIN tasks : tasks[t].created}

\* a learn that ended before it came to store a command
EndedBeforeStoring(t) == tasks[t].result \in {"CaptureFailed", "ManualEntryRequired"}

AtMostOneCreates ==
    OnlyCreators =>
        /\ Cardinality(Creators) <= 1
        /\ \A t \in DOMAIN tasks :
               tasks[t].pc = "done" /\ ~tasks[t].created /\ ~EndedBeforeStoring(t)
                   => tasks[t].result = "Duplicate"

\* every command of `before` that `after` still has is the same command
CommandsKept(before, after) ==
    \A d \in DOMAIN before \cap DOMAIN after :
        \A k \in DOMAIN before[d].commands \cap DOMAIN after[d].commands :
            after[d].commands[k] = before[d].commands[k]

NeverOverwrites ==
    OnlyCreators =>
        /\ \A g \in DOMAIN coordinators : CommandsKept(coordinators[g], coordinators'[g])
        /\ CommandsKept(async_load(persisted), async_load(persisted'))

RemovedUnder == {t \in DOMAIN tasks : tasks[t].removed}

LearnEndsNotFound ==
    \A t \in RemovedUnder :
        /\ ~tasks[t].created
        /\ tasks[t].pc = "done" /\ ~EndedBeforeStoring(t) => tasks[t].result = "NotFound"

RemovedStaysRemoved ==
    \A t \in RemovedUnder :
        tasks'[t] # tasks[t] =>
            /\ tasks[t].device_id \notin DOMAIN devices
                   => tasks[t].device_id \notin DOMAIN devices'
            /\ tasks[t].device_id \notin DOMAIN async_load(persisted)
                   => tasks[t].device_id \notin DOMAIN async_load(persisted')

C33_RemovedDeviceStaysRemoved == []LearnEndsNotFound /\ [][RemovedStaysRemoved]_vars

(***************************************************************************)
(* C34: from the default cover state (is_closed unknown, position 50) and  *)
(* after any sequence of open, close and stop operations, the assumed      *)
(* state has is_closed true exactly when the position is 0, false exactly  *)
(* when it is 100 and unknown exactly when it is 50; and a stop that       *)
(* succeeds changes the assumed state only when the position was 0 or 100. *)
(***************************************************************************)
CoverStateConsistent ==
    /\ cover.is_closed = "True" <=> cover.position = 0
    /\ cover.is_closed = "False" <=> cover.position = 100
    /\ cover.is_closed = None <=> cover.position = 50

StopChangesOnlyAtEnds ==
    last'.op = "stop_cover" /\ last'.result = "ok" /\ cover' # cover
        => cover.position \in {0, 100} /\ cover' = [is_closed |-> None, position |-> 50]

C34_CoverStateConsistent == []CoverStateConsistent /\ [][StopChangesOnlyAtEnds]_vars

\* the cover was closed and a stop has made its state unknown again
C34_Witness ==
    /\ last.op = "stop_cover" /\ last.result = "ok"
    /\ last.arg = [is_closed |-> "True", position |-> 0]
    /\ cover = [is_closed |-> None, position |-> 50]

(***************************************************************************)
(* C35: with only the relative colour temperature mappings (color_temp_up  *)
(* and color_temp_down, no presets), once a turn-on request for a target   *)
(* of T Kelvin has completed, a second request for the same T emits no     *)
(* colour temperature command.                                             *)
(***************************************************************************)
RelativeOnly ==
    LET mappings == devices[SendDevice].entity_configs["light"].command_mappings
    IN  /\ "color_temp_up" \in DOMAIN mappings
        /\ "color_temp_down" \in DOMAIN mappings
        /\ "color_temp_levels" \notin DOMAIN mappings

SameTargetAgain ==
    /\ RelativeOnly
    /\ last.op = "turn_on" /\ last.result = "ok" /\ "color_temp" \in DOMAIN last.arg
    /\ last'.op = "turn_on" /\ last'.arg = last.arg

NoColorTempCommand(events) ==
    \A i \in DOMAIN events :
        events[i] \notin {Event("command", ColorTempUp), Event("command", ColorTempDown)}

C35_SameTargetSendsNothing == [][SameTargetAgain => NoColorTempCommand(trace')]_vars

(***************************************************************************)
(* C36: submitting the light configuration step again for a device that    *)
(* already has a light config replaces the command mappings and options    *)
(* and keeps the config's persisted assumed state (is_on, brightness,      *)
(* color_temp_index, effect).                                              *)
(***************************************************************************)
HasLightConfig(devs) ==
    /\ SendDevice \in DOMAIN devs
    /\ "light" \in DOMAIN devs[SendDevice].entity_configs

ResubmitKeepsState ==
    \A user_input \in ConfigureLightInputs :
        HasLightConfig(devices) /\ async_step_configure_light(SendDevice, user_input)
            => /\ HasLightConfig(devices')
               /\ devices'[SendDevice].entity_configs["light"].state
                      = devices[SendDevice].entity_configs["light"].state

C36_ResubmitKeepsState == [][ResubmitKeepsState]_vars

(***************************************************************************)
(* C37: a turn-on request for a light that is assumed on already sends     *)
(* neither the command mapped to turn_on nor the one mapped to toggle, so  *)
(* a light with only a toggle is never switched off by a turn-on request;  *)
(* and such a request without a brightness, a colour temperature or an     *)
(* effect sends no command at all.                                         *)
(***************************************************************************)
PowerCommands ==
    LET mappings == TheLightConfig.command_mappings
    IN  {Event("command", mappings[k]) : k \in {"turn_on", "toggle"} \cap DOMAIN mappings}

TurnOnWhileOn ==
    last'.op = "turn_on" /\ light.is_on
        => /\ \A i \in DOMAIN trace' : trace'[i] \notin PowerCommands
           /\ last'.arg = EmptyDict => trace' = <<>>

C37_TurnOnWhileOnSendsNoPower == [][TurnOnWhileOn]_vars

\* a light with only a toggle was on, and the request has sent nothing
C37_Witness ==
    /\ last.op = "turn_on" /\ last.result = "ok" /\ last.arg = EmptyDict
    /\ DOMAIN TheLightConfig.command_mappings \cap {"turn_on", "toggle"} = {"toggle"}
    /\ light.is_on
    /\ trace = <<>>

(***************************************************************************)
(* C38: when a send of the blaster fails part-way through a turn-on or     *)
(* turn-off request of the light, the request raises and the persisted     *)
(* assumed state of the light is exactly what it was before the request;   *)
(* after a request that completes, the persisted state of the light equals *)
(* the entity's assumed state in memory (is_on, brightness,                *)
(* color_temp_index, effect).                                              *)
(***************************************************************************)
LightStateKeys == {"is_on", "brightness", "color_temp_index", "effect"}

\* the assumed state a light entity would start from over the stored data
PersistedLight == IRLight(async_load(persisted)[SendDevice].entity_configs["light"])

PersistedIsAssumed ==
    (last.op \in {"turn_on", "turn_off"} /\ last.result = "ok")
        => /\ \A k \in LightStateKeys : PersistedLight[k] = light[k]
           /\ LightStateKeys \subseteq DOMAIN TheLightConfig.state
           /\ \A k \in LightStateKeys : TheLightConfig.state[k] = light[k]

FailedSendSavesNothing ==
    (last'.op \in {"turn_on", "turn_off"} /\ last'.result \in {"SendFailed", "NotFound"})
        => /\ persisted' = persisted
           /\ devices' = devices
           /\ last'.saves = 0

C38_FailedRequestKeepsPersistedState ==
    []PersistedIsAssumed /\ [][FailedSendSavesNothing]_vars

\* the light was off; the power command went out and the next send failed, so
\* the entity assumes on and the stored state is still off
C38_Witness ==
    /\ last.op = "turn_on" /\ last.result = "SendFailed"
    /\ Len(trace) >= 2
    /\ light.is_on
    /\ ~PersistedLight.is_on

====
